---------------------------- MODULE Spec2Model ----------------------------
(***************************************************************************)
(* The allocation engine of topspeedvpnbot (src/src/services/allocator.py) *)
(* as a state machine: concurrent allocate_and_create calls, the lazily    *)
(* created per-profile asyncio locks, the SQLite write transaction of      *)
(* src/src/db.py, and the remote panel reached through XUIClient.          *)
(*                                                                         *)
(* One action is one run of a coroutine between two suspension points      *)
(* (awaits that really yield to the event loop).                           *)
(***************************************************************************)
EXTENDS Integers, Sequences, FiniteSets, TLC

(***************************************************************************)
(* Bounds of the model.                                                    *)
(***************************************************************************)
\* number of allocate_and_create calls made during one behaviour
NCalls == 2
\* number of profile activation toggles the administrator performs
MaxToggles == 1

Calls == 1..NCalls

(***************************************************************************)
(* Text.  A string is a sequence of one-character strings, so that         *)
(* f"{prefix}{number}{suffix}" and str.lower() are computed, not assumed.  *)
(***************************************************************************)
DigitChars == <<"0", "1", "2", "3", "4", "5", "6", "7", "8", "9">>

RECURSIVE Digits(_)
\* str(number) for number >= 0
Digits(n) ==
    IF n < 10 THEN <<DigitChars[n + 1]>>
    ELSE Digits(n \div 10) \o <<DigitChars[(n % 10) + 1]>>

\* str.lower(), on the alphabet used by the model
Lower(s) ==
    [i \in 1..Len(s) |->
        CASE s[i] = "A" -> "a" [] s[i] = "B" -> "b" [] s[i] = "U" -> "u" [] OTHER -> s[i]]

\* f"{prefix}{number}{suffix}"
FormatName(prefix, number, suffix) == prefix \o Digits(number) \o suffix

RECURSIVE SumSeq(_)
SumSeq(s) == IF Len(s) = 0 THEN 0 ELSE Head(s) + SumSeq(Tail(s))

Max0(x) == IF x > 0 THEN x ELSE 0

SeqRange(s) == {s[i] : i \in 1..Len(s)}

(***************************************************************************)
(* allocate_and_create: the accepted batch sizes.                          *)
(***************************************************************************)
\* the quantities callers try: one below the accepted set, the smallest
\* accepted one, and one above every configured capacity
QuantityInputs == {5, 10, 50}

QuantityAccepted_any(quantity) == TRUE

\* allocator.py line 122: quantity not in {10, 50, 100} raises
QuantityAccepted(quantity) == quantity \in {10, 50, 100}

(***************************************************************************)
(* The lock table.  A lock is named by the call that created it.           *)
(***************************************************************************)
GetLock_new(table, profile_id, fresh) == fresh

\* _get_lock: the lock already stored for profile_id, else a fresh one
GetLock(table, profile_id, fresh) ==
    IF profile_id \in DOMAIN table THEN table[profile_id] ELSE fresh

(***************************************************************************)
(* Capacity Accountant.                                                    *)
(***************************************************************************)
ActiveCount_enabled_only(clientStats) ==
    Cardinality({i \in 1..Len(clientStats) : clientStats[i].enable = "true"})

\* _build_port_runtime lines 335-340: entries whose enable flag is not
\* explicitly false
ActiveCount(clientStats) ==
    Cardinality({i \in 1..Len(clientStats) : clientStats[i].enable # "false"})

ResolvePort_any_match(pp, inbounds) ==
    IF pp.inbound_id \in DOMAIN inbounds
    THEN [err |-> "", inbound_id |-> pp.inbound_id]
    ELSE LET matches == {i \in DOMAIN inbounds : inbounds[i].port = pp.port}
         IN  IF matches # {}
             THEN [err |-> "", inbound_id |-> CHOOSE i \in matches : TRUE]
             ELSE [err |-> "Inbound for port not found on panel", inbound_id |-> 0]

\* one configured port resolved against the inbound list: by stored inbound
\* id first, by port number when no inbound has that id
ResolvePort(pp, inbounds) ==
    IF pp.inbound_id \in DOMAIN inbounds
    THEN [err |-> "", inbound_id |-> pp.inbound_id]
    ELSE LET matches == {i \in DOMAIN inbounds : inbounds[i].port = pp.port}
         IN  IF Cardinality(matches) = 1
             THEN [err |-> "", inbound_id |-> CHOOSE i \in matches : TRUE]
             ELSE IF matches = {}
             THEN [err |-> "Inbound for port not found on panel", inbound_id |-> 0]
             ELSE [err |-> "Multiple inbounds found for port", inbound_id |-> 0]

RECURSIVE BuildPortRuntimeFrom(_, _, _, _)
BuildPortRuntimeFrom(k, profile_ports, inbounds, runtimes) ==
    IF k > Len(profile_ports) THEN [err |-> "", runtimes |-> runtimes]
    ELSE LET pp == profile_ports[k]
             r  == ResolvePort(pp, inbounds)
         IN  IF r.err # "" THEN [err |-> r.err, runtimes |-> <<>>]
             ELSE LET inbound == inbounds[r.inbound_id]
                      runtime == [inbound_id         |-> r.inbound_id,
                                  port               |-> inbound.port,
                                  max_active_clients |-> pp.max_active_clients,
                                  active_clients     |-> ActiveCount(inbound.clientStats),
                                  protocol           |-> inbound.protocol]
                  IN  BuildPortRuntimeFrom(k + 1, profile_ports, inbounds,
                                           Append(runtimes, runtime))

\* _build_port_runtime
BuildPortRuntime(profile_ports, inbounds) ==
    BuildPortRuntimeFrom(1, profile_ports, inbounds, <<>>)

\* line 154: sum(max(0, p.max_active_clients - p.active_clients))
TotalFree(port_runtimes) ==
    SumSeq([i \in 1..Len(port_runtimes) |->
              Max0(port_runtimes[i].max_active_clients - port_runtimes[i].active_clients)])

CapacityRejects_never(total_free, quantity) == FALSE

\* line 155: if total_free < quantity: raise
CapacityRejects(total_free, quantity) == total_free < quantity

PortHasRoom_inclusive(runtime, used_here) ==
    runtime.active_clients + used_here <= runtime.max_active_clients

\* line 359-360: used = active_clients + local_used[idx]; used < max
PortHasRoom(runtime, used_here) ==
    runtime.active_clients + used_here < runtime.max_active_clients

SelectNextPortIndexFillFirst_last_open(port_runtimes, local_used) ==
    LET open == {i \in 1..Len(port_runtimes) :
                    PortHasRoom(port_runtimes[i], local_used[i])}
    IN  IF open = {} THEN 0
        ELSE CHOOSE i \in open : \A j \in open : i >= j

\* _select_next_port_index_fill_first: the first index with room, 0 for None
SelectNextPortIndexFillFirst(port_runtimes, local_used) ==
    LET open == {i \in 1..Len(port_runtimes) :
                    PortHasRoom(port_runtimes[i], local_used[i])}
    IN  IF open = {} THEN 0
        ELSE CHOOSE i \in open : \A j \in open : i <= j

\* _extract_existing_emails: the lowercased non-empty emails of every inbound.
\* str(stat.get("email") or "").strip().lower(): the model's emails carry no
\* surrounding blanks, an absent email is the empty sequence
ExtractExistingEmails(inbounds) ==
    UNION {{Lower(inbounds[i].clientStats[k].email) :
               k \in 1..Len(inbounds[i].clientStats)} : i \in DOMAIN inbounds}
        \ {<<>>}

(***************************************************************************)
(* Name Allocator.                                                         *)
(***************************************************************************)
RECURSIVE NextUniqueName_ignoring_panel(_, _, _, _, _, _)
NextUniqueName_ignoring_panel(issued_names, prefix, suffix, start_number, existing_emails, names_in_request) ==
    LET number  == start_number + 1
        name    == FormatName(prefix, number, suffix)
    IN  IF Lower(name) \in names_in_request \/ name \in issued_names
        THEN NextUniqueName_ignoring_panel(issued_names, prefix, suffix, number,
                                           existing_emails, names_in_request)
        ELSE [name |-> name, number |-> number]

RECURSIVE NextUniqueName(_, _, _, _, _, _)
\* _next_unique_name: the first number above start_number whose name is
\* neither (lowercased) among the remote emails or the names of this batch,
\* nor (as written) a config_name of issued_configs
NextUniqueName(issued_names, prefix, suffix, start_number, existing_emails, names_in_request) ==
    LET number  == start_number + 1
        name    == FormatName(prefix, number, suffix)
        lowered == Lower(name)
    IN  IF lowered \in existing_emails \/ lowered \in names_in_request
        THEN NextUniqueName(issued_names, prefix, suffix, number,
                            existing_emails, names_in_request)
        ELSE IF name \in issued_names
        THEN NextUniqueName(issued_names, prefix, suffix, number,
                            existing_emails, names_in_request)
        ELSE [name |-> name, number |-> number]

(***************************************************************************)
(* Credential Synthesizer: what the orchestrator depends on is whether the *)
(* protocol is supported; the secrets are random and never compared.       *)
(***************************************************************************)
SupportedProtocols == {"trojan", "shadowsocks", "vmess", "vless"}

ProtocolSupported_any(protocol) == TRUE

\* _build_client_payload lines 387-396: the else branch raises
ProtocolSupported(protocol) == protocol \in SupportedProtocols

(***************************************************************************)
(* Staging: the loop of lines 182-214, run inside the open transaction.    *)
(***************************************************************************)
RECURSIVE StageFrom(_, _, _, _)
StageFrom(k, quantity, ctx, st) ==
    IF k > quantity \/ st.err # "" THEN st
    ELSE LET nm  == NextUniqueName(ctx.issued_names, ctx.prefix, ctx.suffix,
                                   st.last_number, ctx.existing_emails,
                                   st.names_in_request)
             idx == SelectNextPortIndexFillFirst(ctx.port_runtimes, st.local_used)
         IN  IF idx = 0
             THEN [st EXCEPT !.err = "Capacity check failed during allocation"]
             ELSE IF ~ProtocolSupported(ctx.port_runtimes[idx].protocol)
             THEN [st EXCEPT !.err = "Unsupported inbound protocol for auto client creation"]
             ELSE StageFrom(k + 1, quantity, ctx,
                    [err              |-> "",
                     last_number      |-> nm.number,
                     names_in_request |-> st.names_in_request \cup {Lower(nm.name)},
                     local_used       |-> [st.local_used EXCEPT ![idx] = @ + 1],
                     staged           |-> Append(st.staged,
                                            [inbound_id  |-> ctx.port_runtimes[idx].inbound_id,
                                             config_name |-> nm.name,
                                             number      |-> nm.number])])

\* the staging loop for one call: quantity units against one snapshot
StageBatch(quantity, ctx, last_number) ==
    StageFrom(1, quantity, ctx,
              [err              |-> "",
               last_number      |-> last_number,
               names_in_request |-> {},
               local_used       |-> [i \in 1..Len(ctx.port_runtimes) |-> 0],
               staged           |-> <<>>])

RECURSIVE InboundOrderFrom(_, _, _)
InboundOrderFrom(k, staged, order) ==
    IF k > Len(staged) THEN order
    ELSE InboundOrderFrom(k + 1, staged,
            IF staged[k].inbound_id \in SeqRange(order) THEN order
            ELSE Append(order, staged[k].inbound_id))

InboundOrder_first_only(staged) ==
    IF staged = <<>> THEN <<>> ELSE <<staged[1].inbound_id>>

InboundOrder_per_client(staged) ==
    [k \in 1..Len(staged) |-> staged[k].inbound_id]

\* the keys of assigned_by_inbound in insertion order (line 216 iterates them)
InboundOrder(staged) == InboundOrderFrom(1, staged, <<>>)

\* assigned_by_inbound[inbound_id]: the clients staged for one inbound
ClientsFor(staged, inbound_id) ==
    SelectSeq(staged, LAMBDA a : a.inbound_id = inbound_id)

(***************************************************************************)
(* The stored configuration the calls run against.  The tables are the     *)
(* contents of the SQLite file when the service is constructed.            *)
(***************************************************************************)
\* the profiles rows.  Callers pass the ids 1 to 5: 1 and 2 are sellable
\* profiles of panel 1, 3 has no port rows, 4 points at a panel row that is
\* gone, 5 has no row
ProfileRows ==
    [p \in {1, 2, 3, 4} |->
        [id       |-> p,
         panel_id |-> IF p = 4 THEN 2 ELSE 1,
         prefix   |-> CASE p = 1 -> <<"a">> [] p = 2 -> <<"a", "1">>
                        [] p = 3 -> <<"A">> [] p = 4 -> <<"d">>,
         suffix   |-> <<>>,
         active   |-> TRUE]]

\* profile_ports rows of each profile, ORDER BY sort_order, id (list_ports)
PortRows ==
    [p \in {1, 2, 3, 4} |->
        CASE p = 1 -> <<[inbound_id |-> 1, port |-> 11, max_active_clients |-> 2],
                        [inbound_id |-> 2, port |-> 12, max_active_clients |-> 20]>>
          [] p = 2 -> <<[inbound_id |-> 9, port |-> 13, max_active_clients |-> 10],
                        [inbound_id |-> 4, port |-> 14, max_active_clients |-> 5]>>
          [] p = 3 -> <<>>
          [] p = 4 -> <<[inbound_id |-> 1, port |-> 11, max_active_clients |-> 2]>>]

Stat(email, enable) == [email |-> email, enable |-> enable]

\* what inbound 1 holds at the start: nothing; full (one disabled entry, one
\* entry without an enable flag whose name is A3); above its ceiling of 2
Inbound1Stats ==
    { <<>>,
      <<Stat(<<"u", "1">>, "true"), Stat(<<"u", "2">>, "false"),
        Stat(<<"A", "3">>, "absent")>>,
      <<Stat(<<"u", "1">>, "true"), Stat(<<"u", "2">>, "true"),
        Stat(<<"u", "3">>, "true")>> }

\* what inbound 3 holds at the start: nothing, or one client, so that a
\* batch of 10 spills onto the next port of profile 2
Inbound3Stats == { <<>>, <<Stat(<<"y", "1">>, "true")>> }

\* the panel's inbound list: id -> port, protocol, clientStats
RemoteInit(s1, s3) ==
    [i \in {1, 2, 3, 4} |->
        [port        |-> 10 + i,
         protocol    |-> CASE i = 1 -> "vless" [] i = 2 -> "trojan"
                           [] i = 3 -> "vmess" [] i = 4 -> "http",
         clientStats |-> CASE i = 1 -> s1 [] i = 3 -> s3 [] OTHER -> <<>>]]

NoResult == [kind |-> "", msg |-> "", free |-> 0, requested |-> 0]

Raised(kind, msg) == [kind |-> kind, msg |-> msg, free |-> 0, requested |-> 0]

NoLocals ==
    [profile |-> 0, panel_id |-> 0, ports |-> <<>>, port_runtimes |-> <<>>,
     existing_emails |-> {}, last_number |-> 0, staged |-> <<>>,
     local_used |-> <<>>, add_idx |-> 0, tx |-> <<>>]

\* XUISettings (xui_client.py 15-19) is a slots dataclass with these fields
XUISettingsFields == {"sub_uri", "sub_path", "sub_port"}

\* no helper is being applied on its own
NoHelperCall == [op |-> "", args |-> <<>>, out |-> <<>>]

VARIABLES
    profilesTbl,    \* profiles rows: id -> row
    panelsTbl,      \* panels rows: id -> [active]
    portsTbl,       \* profile_ports rows: profile id -> ordered rows
    countersTbl,    \* profile_counters rows: profile id -> last_number
    issuedTbl,      \* issued_configs rows (committed)
    remote,         \* the panel: inbound id -> port, protocol, clientStats
    dbWriter,       \* the call holding the SQLite write lock, 0 for none
    profile_locks,  \* AllocatorService._profile_locks: profile id -> lock
    lockOwner,      \* asyncio.Lock._locked, with the holder: lock -> call or 0
    lockWaiters,    \* asyncio.Lock._waiters: lock -> calls in arrival order
    pc,             \* where each call stands
    arg,            \* each call's arguments and the lock it took
    loc,            \* each call's local variables
    result,         \* what each call raised (no call returns a result)
    trace,          \* history: the effects each call has had, in order
    entered,        \* history: the calls in the order they took their lock
    submitted,      \* history: the add_clients calls the panel accepted, per call
    toggles,        \* number of toggle_profile operations done
    helperCall      \* a helper of the allocator applied on its own: its
                    \* arguments and what it returned

vars == <<profilesTbl, panelsTbl, portsTbl, countersTbl, issuedTbl, remote,
          dbWriter, profile_locks, lockOwner, lockWaiters, pc, arg, loc,
          result, trace, entered, submitted, toggles, helperCall>>

dbVars == <<profilesTbl, panelsTbl, portsTbl, countersTbl, issuedTbl>>

lockVars == <<profile_locks, lockOwner, lockWaiters>>

Init ==
    /\ profilesTbl = ProfileRows
    /\ \E pa \in BOOLEAN : panelsTbl = [q \in {1} |-> [active |-> pa]]
    /\ portsTbl = PortRows
    /\ countersTbl = [p \in {1, 3, 4} |-> 0]
    /\ issuedTbl = {}
    /\ \E s1 \in Inbound1Stats, s3 \in Inbound3Stats : remote = RemoteInit(s1, s3)
    /\ dbWriter = 0
    /\ profile_locks = [p \in {} |-> 0]
    /\ lockOwner = [l \in Calls |-> 0]
    /\ lockWaiters = [l \in Calls |-> <<>>]
    /\ pc = [c \in Calls |-> "idle"]
    /\ arg = [c \in Calls |-> [profile_id |-> 0, quantity |-> 0, lock |-> 0]]
    /\ loc = [c \in Calls |-> NoLocals]
    /\ result = [c \in Calls |-> NoResult]
    /\ trace = [c \in Calls |-> <<>>]
    /\ entered = <<>>
    /\ submitted = [c \in Calls |-> <<>>]
    /\ toggles = 0
    /\ helperCall = NoHelperCall

Log(c, event) == trace' = [trace EXCEPT ![c] = Append(@, event)]

Release_never(c) == lockOwner' = lockOwner

\* leaving "async with lock": asyncio.Lock.release()
Release(c) == lockOwner' = [lockOwner EXCEPT ![arg[c].lock] = 0]

(***************************************************************************)
(* allocate_and_create, lines 115-127, up to the first suspension: the     *)
(* quantity check, _get_lock, and lock.acquire(), which returns at once    *)
(* when the lock is free and nobody waits, and queues the caller otherwise. *)
(***************************************************************************)
Call(c, profile_id, quantity) ==
    /\ pc[c] = "idle"
    /\ UNCHANGED helperCall
    /\ IF ~QuantityAccepted(quantity)
       THEN /\ pc' = [pc EXCEPT ![c] = "done"]
            /\ arg' = [arg EXCEPT ![c] = [profile_id |-> profile_id,
                                          quantity |-> quantity, lock |-> 0]]
            /\ result' = [result EXCEPT ![c] =
                            Raised("AllocationError", "Quantity must be one of: 10, 50, 100")]
            /\ UNCHANGED <<lockVars, trace, entered>>
       ELSE LET lock == GetLock(profile_locks, profile_id, c)
                free == lockOwner[lock] = 0 /\ lockWaiters[lock] = <<>>
            IN  /\ profile_locks' = [p \in DOMAIN profile_locks \cup {profile_id} |->
                                        IF p = profile_id THEN lock ELSE profile_locks[p]]
                /\ arg' = [arg EXCEPT ![c] = [profile_id |-> profile_id,
                                              quantity |-> quantity, lock |-> lock]]
                /\ IF free
                   THEN /\ lockOwner' = [lockOwner EXCEPT ![lock] = c]
                        /\ pc' = [pc EXCEPT ![c] = "get_profile"]
                        /\ entered' = Append(entered, c)
                        /\ Log(c, "lock")
                        /\ UNCHANGED lockWaiters
                   ELSE /\ lockWaiters' = [lockWaiters EXCEPT ![lock] = Append(@, c)]
                        /\ pc' = [pc EXCEPT ![c] = "wait_lock"]
                        /\ UNCHANGED <<lockOwner, entered, trace>>
                /\ UNCHANGED result
    /\ UNCHANGED <<dbVars, remote, dbWriter, loc, submitted, toggles>>

\* a queued caller is woken by release() and takes the lock, first come
\* first served
Acquire(c) ==
    /\ pc[c] = "wait_lock"
    /\ UNCHANGED helperCall
    /\ lockOwner[arg[c].lock] = 0
    /\ Head(lockWaiters[arg[c].lock]) = c
    /\ lockOwner' = [lockOwner EXCEPT ![arg[c].lock] = c]
    /\ lockWaiters' = [lockWaiters EXCEPT ![arg[c].lock] = Tail(@)]
    /\ pc' = [pc EXCEPT ![c] = "get_profile"]
    /\ entered' = Append(entered, c)
    /\ Log(c, "lock")
    /\ UNCHANGED <<dbVars, remote, dbWriter, profile_locks, arg, loc, result, submitted, toggles>>

\* an exception raised in _allocate_locked outside "async with XUIClient":
\* it leaves "async with lock" in the same step
RaiseLocked(c, res) ==
    /\ pc' = [pc EXCEPT ![c] = "done"]
    /\ result' = [result EXCEPT ![c] = res]
    /\ Release(c)
    /\ UNCHANGED <<loc, profile_locks, lockWaiters>>

ProfileAvailable_inactive_too(tbl, profile_id) == profile_id \in DOMAIN tbl

\* line 131: profile is None or not profile.active
ProfileAvailable(tbl, profile_id) ==
    profile_id \in DOMAIN tbl /\ tbl[profile_id].active

\* lines 130-132
GetProfile(c) ==
    /\ pc[c] = "get_profile"
    /\ UNCHANGED helperCall
    /\ Log(c, "read profile")
    /\ IF ~ProfileAvailable(profilesTbl, arg[c].profile_id)
       THEN RaiseLocked(c, Raised("AllocationError", "Profile is not available"))
       ELSE /\ loc' = [loc EXCEPT ![c].profile = profilesTbl[arg[c].profile_id]]
            /\ pc' = [pc EXCEPT ![c] = "get_panel"]
            /\ UNCHANGED <<result, lockVars>>
    /\ UNCHANGED <<dbVars, remote, dbWriter, arg, entered, submitted, toggles>>

\* lines 134-136; line 135: panel is None or not panel.active
GetPanel(c) ==
    /\ pc[c] = "get_panel"
    /\ UNCHANGED helperCall
    /\ Log(c, "read panel")
    /\ LET panel_id == loc[c].profile.panel_id
       IN  IF ~(panel_id \in DOMAIN panelsTbl /\ panelsTbl[panel_id].active)
           THEN RaiseLocked(c, Raised("AllocationError", "Panel is not available"))
           ELSE /\ loc' = [loc EXCEPT ![c].panel_id = panel_id]
                /\ pc' = [pc EXCEPT ![c] = "list_ports"]
                /\ UNCHANGED <<result, lockVars>>
    /\ UNCHANGED <<dbVars, remote, dbWriter, arg, entered, submitted, toggles>>

\* lines 138-140
ListPorts(c) ==
    /\ pc[c] = "list_ports"
    /\ UNCHANGED helperCall
    /\ Log(c, "read ports")
    /\ LET ports == portsTbl[loc[c].profile.id]
       IN  IF ports = <<>>
           THEN RaiseLocked(c, Raised("AllocationError", "Profile has no ports configured"))
           ELSE /\ loc' = [loc EXCEPT ![c].ports = ports]
                /\ pc' = [pc EXCEPT ![c] = "list_inbounds"]
                /\ UNCHANGED <<result, lockVars>>
    /\ UNCHANGED <<dbVars, remote, dbWriter, arg, entered, submitted, toggles>>

\* an exception raised inside "async with XUIClient" and outside the
\* transaction: XUIClient.__aexit__ awaits close() before the lock is left
RaiseInXui(c, res) ==
    /\ pc' = [pc EXCEPT ![c] = "xui_close"]
    /\ result' = [result EXCEPT ![c] = res]
    /\ UNCHANGED loc

\* lines 151-160: list_inbounds, then without suspension _build_port_runtime,
\* the aggregate capacity check and _extract_existing_emails
ListInbounds(c) ==
    /\ pc[c] = "list_inbounds"
    /\ UNCHANGED helperCall
    /\ Log(c, "list_inbounds")
    /\ \E ok \in BOOLEAN :
         IF ~ok
         THEN RaiseInXui(c, Raised("XUIError", "list_inbounds failed"))
         ELSE LET built      == BuildPortRuntime(loc[c].ports, remote)
                  total_free == TotalFree(built.runtimes)
              IN  IF built.err # ""
                  THEN RaiseInXui(c, Raised("AllocationError", built.err))
                  ELSE IF CapacityRejects(total_free, arg[c].quantity)
                  THEN RaiseInXui(c, [kind |-> "AllocationError",
                                      msg |-> "Insufficient capacity",
                                      free |-> total_free,
                                      requested |-> arg[c].quantity])
                  ELSE /\ loc' = [loc EXCEPT
                                    ![c].port_runtimes = built.runtimes,
                                    ![c].existing_emails = ExtractExistingEmails(remote)]
                       /\ pc' = [pc EXCEPT ![c] = "begin"]
                       /\ UNCHANGED result
    /\ UNCHANGED <<dbVars, remote, dbWriter, lockVars, arg, entered, submitted, toggles>>

\* db.transaction(), lines 117-120 of db.py: BEGIN IMMEDIATE takes the write
\* lock of the database file
Begin(c) ==
    /\ pc[c] = "begin"
    /\ UNCHANGED helperCall
    /\ dbWriter = 0
    /\ dbWriter' = c
    /\ pc' = [pc EXCEPT ![c] = "stage"]
    /\ Log(c, "begin")
    /\ UNCHANGED <<dbVars, remote, lockVars, arg, loc, result, entered, submitted, toggles>>

\* BEGIN IMMEDIATE while another connection holds the write lock: sqlite3
\* waits for its busy timeout and then raises OperationalError; nothing was
\* begun, so the rollback of db.py line 124 undoes nothing
BeginTimeout(c) ==
    /\ pc[c] = "begin"
    /\ UNCHANGED helperCall
    /\ dbWriter # 0
    /\ Log(c, "begin refused")
    /\ RaiseInXui(c, Raised("OperationalError", "database is locked"))
    /\ UNCHANGED <<dbVars, remote, dbWriter, lockVars, arg, entered, submitted, toggles>>

RaiseInTx_ignored(c, res) ==
    /\ pc' = pc
    /\ result' = result

\* an exception raised inside the transaction: db.py lines 123-125
RaiseInTx(c, res) ==
    /\ pc' = [pc EXCEPT ![c] = "rollback"]
    /\ result' = [result EXCEPT ![c] = res]

\* lines 163-214: the counter row is inserted if absent and read, then the
\* batch is staged; every statement runs on the call's own connection
Stage(c) ==
    /\ pc[c] = "stage"
    /\ UNCHANGED helperCall
    /\ LET pid     == loc[c].profile.id
           tx      == IF pid \in DOMAIN countersTbl THEN <<>>
                      ELSE <<"insert profile_counters row">>
           last    == IF pid \in DOMAIN countersTbl THEN countersTbl[pid] ELSE 0
           ctx     == [issued_names    |-> {r.config_name : r \in issuedTbl},
                       prefix          |-> loc[c].profile.prefix,
                       suffix          |-> loc[c].profile.suffix,
                       existing_emails |-> loc[c].existing_emails,
                       port_runtimes   |-> loc[c].port_runtimes]
           st      == StageBatch(arg[c].quantity, ctx, last)
       IN  IF st.err # ""
           THEN /\ RaiseInTx(c, Raised("AllocationError", st.err))
                /\ loc' = [loc EXCEPT ![c].tx = tx]
           ELSE /\ loc' = [loc EXCEPT ![c].tx = tx,
                                      ![c].last_number = st.last_number,
                                      ![c].staged = st.staged,
                                      ![c].local_used = st.local_used,
                                      ![c].add_idx = 1]
                /\ pc' = [pc EXCEPT ![c] = "add_clients"]
                /\ UNCHANGED result
    /\ Log(c, "stage")
    /\ UNCHANGED <<dbVars, remote, dbWriter, lockVars, arg, entered, submitted, toggles>>

\* lines 216-217, one iteration: add_clients for the next inbound of
\* assigned_by_inbound; the panel appends the clients or the call raises
AddClients(c) ==
    /\ pc[c] = "add_clients"
    /\ UNCHANGED helperCall
    /\ Log(c, "add_clients")
    /\ LET order      == InboundOrder(loc[c].staged)
           inbound_id == order[loc[c].add_idx]
           clients    == ClientsFor(loc[c].staged, inbound_id)
       IN  \E ok \in BOOLEAN :
             IF ok
             THEN /\ remote' = [remote EXCEPT ![inbound_id].clientStats =
                                  @ \o [k \in 1..Len(clients) |->
                                          Stat(clients[k].config_name, "true")]]
                  /\ submitted' = [submitted EXCEPT ![c] =
                                     Append(@, [inbound_id |-> inbound_id,
                                                emails |-> [k \in 1..Len(clients) |->
                                                              clients[k].config_name]])]
                  /\ loc' = [loc EXCEPT ![c].add_idx = @ + 1]
                  /\ pc' = [pc EXCEPT ![c] =
                              IF loc[c].add_idx = Len(order) THEN "get_settings"
                              ELSE "add_clients"]
                  /\ UNCHANGED result
             ELSE /\ RaiseInTx(c, Raised("XUIError", "add_clients failed"))
                  /\ UNCHANGED <<remote, submitted, loc>>
    /\ UNCHANGED <<dbVars, dbWriter, lockVars, arg, entered, toggles>>

\* lines 221-225: get_settings, then the first iteration of the link loop
\* reads settings.sub_enable; XUISettings has no such field, so the read
\* raises AttributeError, which db.transaction() answers with a rollback
GetSettings(c) ==
    /\ pc[c] = "get_settings"
    /\ UNCHANGED helperCall
    /\ Log(c, "get_settings")
    /\ \E ok \in BOOLEAN :
         IF ~ok
         THEN RaiseInTx(c, Raised("XUIError", "get_settings failed"))
         ELSE IF "sub_enable" \in XUISettingsFields
         THEN /\ pc' = [pc EXCEPT ![c] = "resolve_links"]
              /\ UNCHANGED result
         ELSE RaiseInTx(c, Raised("AttributeError", "XUISettings has no attribute sub_enable"))
    /\ UNCHANGED <<dbVars, remote, dbWriter, lockVars, arg, loc, entered, submitted, toggles>>

Rollback_deletes_issued(c) ==
    /\ pc[c] = "rollback"
    /\ UNCHANGED helperCall
    /\ dbWriter' = 0
    /\ loc' = [loc EXCEPT ![c].tx = <<>>]
    /\ pc' = [pc EXCEPT ![c] = "xui_close"]
    /\ Log(c, "rollback")
    /\ issuedTbl' = {r \in issuedTbl : r.profile_id # loc[c].profile.id}
    /\ UNCHANGED <<profilesTbl, panelsTbl, portsTbl, countersTbl, remote, lockVars,
                   arg, result, entered, submitted, toggles>>

Rollback_commits(c) ==
    /\ pc[c] = "rollback"
    /\ UNCHANGED helperCall
    /\ dbWriter' = 0
    /\ loc' = [loc EXCEPT ![c].tx = <<>>]
    /\ pc' = [pc EXCEPT ![c] = "xui_close"]
    /\ Log(c, "rollback")
    /\ countersTbl' = [p \in DOMAIN countersTbl \cup
                               (IF loc[c].tx = <<>> THEN {} ELSE {loc[c].profile.id}) |->
                          IF p \in DOMAIN countersTbl THEN countersTbl[p] ELSE 0]
    /\ UNCHANGED <<profilesTbl, panelsTbl, portsTbl, issuedTbl, remote, lockVars,
                   arg, result, entered, submitted, toggles>>

\* db.py lines 123-127: rollback and close; the uncommitted statements are
\* dropped and the write lock is free again
Rollback(c) ==
    /\ pc[c] = "rollback"
    /\ UNCHANGED helperCall
    /\ dbWriter' = 0
    /\ loc' = [loc EXCEPT ![c].tx = <<>>]
    /\ pc' = [pc EXCEPT ![c] = "xui_close"]
    /\ Log(c, "rollback")
    /\ UNCHANGED <<dbVars, remote, lockVars, arg, result, entered, submitted, toggles>>

\* XUIClient.__aexit__ (close), after which the exception leaves
\* "async with lock" and allocate_and_create
XuiClose(c) ==
    /\ pc[c] = "xui_close"
    /\ UNCHANGED helperCall
    /\ pc' = [pc EXCEPT ![c] = "done"]
    /\ Release(c)
    /\ UNCHANGED <<dbVars, remote, dbWriter, profile_locks, lockWaiters, arg, loc,
                   result, trace, entered, submitted, toggles>>

\* toggle_profile (handlers_admin.py) through ProfileRepository.set_active:
\* one committed UPDATE, which needs the write lock to be free
ToggleProfile(p) ==
    /\ toggles < MaxToggles
    /\ UNCHANGED helperCall
    /\ dbWriter = 0
    /\ p \in DOMAIN profilesTbl
    /\ profilesTbl' = [profilesTbl EXCEPT ![p].active = ~@]
    /\ toggles' = toggles + 1
    /\ UNCHANGED <<panelsTbl, portsTbl, countersTbl, issuedTbl, remote, dbWriter,
                   lockVars, pc, arg, loc, result, trace, entered, submitted>>

Spec ==
    /\ Init
    /\ [][\/ \E c \in Calls :
            \/ \E profile_id \in {1, 2, 3, 4, 5}, quantity \in QuantityInputs :
                  Call(c, profile_id, quantity)
            \/ Acquire(c)
            \/ GetProfile(c)
            \/ GetPanel(c)
            \/ ListPorts(c)
            \/ ListInbounds(c)
            \/ Begin(c)
            \/ BeginTimeout(c)
            \/ Stage(c)
            \/ AddClients(c)
            \/ GetSettings(c)
            \/ Rollback(c)
            \/ XuiClose(c)
        \/ \E p \in {1, 2} : ToggleProfile(p)]_vars

(***************************************************************************)
(* Vocabulary of the properties.                                           *)
(***************************************************************************)
\* the steps of _allocate_locked, which run inside "async with lock"
LockedSteps ==
    {"get_profile", "get_panel", "list_ports", "list_inbounds", "begin",
     "stage", "add_clients", "get_settings", "resolve_links", "rollback",
     "xui_close"}

InAllocateLocked(c) == pc[c] \in LockedSteps

Happened(c, event) == event \in SeqRange(trace[c])

\* number of clients the panel accepted from call c for one inbound
AddedTo(c, inbound_id) ==
    SumSeq([k \in 1..Len(submitted[c]) |->
              IF submitted[c][k].inbound_id = inbound_id
              THEN Len(submitted[c][k].emails) ELSE 0])

\* the names the panel accepted from call c
EmailsOf(c) ==
    UNION {SeqRange(submitted[c][k].emails) : k \in 1..Len(submitted[c])}

\* every add_clients call of the batch of c has returned
BatchSubmitted(c) ==
    /\ loc[c].staged # <<>>
    /\ Len(submitted[c]) = Len(InboundOrder(loc[c].staged))

\* call c has touched neither the panel's clients nor the database
NothingWritten(c) ==
    /\ submitted[c] = <<>>
    /\ ~Happened(c, "add_clients")
    /\ ~Happened(c, "begin")
    /\ loc[c].tx = <<>>
    /\ dbWriter # c

\* c1 took the lock of their common profile before c2
Before(c1, c2) ==
    \E i, j \in 1..Len(entered) : i < j /\ entered[i] = c1 /\ entered[j] = c2

(***************************************************************************)
(* C3.  At most one call per profile id is inside _allocate_locked, and a  *)
(* call that is inside it holds the lock stored for its profile, from its  *)
(* first repository read to the end of its rollback and client close.      *)
(***************************************************************************)
C3_OneCallPerProfileInside ==
    /\ \A c1, c2 \in Calls :
          (c1 # c2 /\ InAllocateLocked(c1) /\ InAllocateLocked(c2))
             => arg[c1].profile_id # arg[c2].profile_id
    /\ \A c \in Calls :
          InAllocateLocked(c)
             => /\ lockOwner[arg[c].lock] = c
                /\ arg[c].profile_id \in DOMAIN profile_locks
                /\ profile_locks[arg[c].profile_id] = arg[c].lock

\* one call is submitting its batch while another call for the same profile
\* waits for the lock
C3_Witness ==
    \E c1, c2 \in Calls :
        /\ c1 # c2
        /\ arg[c1].profile_id = arg[c2].profile_id
        /\ pc[c1] = "add_clients"
        /\ pc[c2] = "wait_lock"

(***************************************************************************)
(* C8.  A call whose quantity is not 10, 50 or 100 has ended with          *)
(* AllocationError and has done nothing: it holds no lock and waits for    *)
(* none, has read no table, called the panel not at all and opened no      *)
(* transaction.                                                            *)
(***************************************************************************)
C8_BadQuantityRejectedFirst ==
    \A c \in Calls :
        (pc[c] # "idle" /\ arg[c].quantity \notin {10, 50, 100})
           => /\ pc[c] = "done"
              /\ result[c].kind = "AllocationError"
              /\ result[c].msg = "Quantity must be one of: 10, 50, 100"
              /\ trace[c] = <<>>
              /\ NothingWritten(c)
              /\ \A l \in Calls : lockOwner[l] # c /\ c \notin SeqRange(lockWaiters[l])

C8_Witness ==
    \E c \in Calls :
        /\ pc[c] = "done"
        /\ arg[c].quantity = 5
        /\ result[c].kind = "AllocationError"
        /\ trace[c] = <<>>

C2_SecondCallSeesFirst ==
    \A c1, c2 \in Calls :
        (/\ c1 # c2
         /\ arg[c1].profile_id = arg[c2].profile_id
         /\ Before(c1, c2)
         /\ loc[c2].port_runtimes # <<>>)
           => /\ pc[c1] = "done"
              /\ \A e \in EmailsOf(c1) : Lower(e) \in loc[c2].existing_emails
              /\ \A i \in 1..Len(loc[c2].port_runtimes) :
                    LET rt    == loc[c2].port_runtimes[i]
                        a1    == AddedTo(c1, rt.inbound_id)
                        a2    == AddedTo(c2, rt.inbound_id)
                        start == IF loc[c1].port_runtimes = <<>>
                                 THEN rt.active_clients
                                 ELSE loc[c1].port_runtimes[i].active_clients
                    IN  /\ rt.active_clients >= start + a1
                        /\ a1 + a2 > 0 => start + a1 + a2 <= rt.max_active_clients

\* two calls on one profile have both added clients to the panel
C2_Witness ==
    \E c1, c2 \in Calls :
        /\ c1 # c2
        /\ arg[c1].profile_id = arg[c2].profile_id
        /\ BatchSubmitted(c1)
        /\ BatchSubmitted(c2)

(***************************************************************************)
(* C4.  As claimed: a call never waits for, and never fails because of,    *)
(* something a call on a different profile holds, the database write       *)
(* transaction included.                                                   *)
(***************************************************************************)
C4_NoCrossProfileBlocking ==
    \A c1, c2 \in Calls :
        (c1 # c2 /\ arg[c1].profile_id # arg[c2].profile_id)
           => /\ ~(pc[c1] = "begin" /\ dbWriter = c2)
              /\ result[c1].kind # "OperationalError"

(***************************************************************************)
(* C7.  When the panel answered and every port resolved, and the sum over  *)
(* the ports of max(0, max_active_clients - active) is below the quantity, *)
(* the call fails at that step with AllocationError carrying that sum and  *)
(* the quantity; and a call that failed so has called add_clients never    *)
(* and has written nothing.                                                *)
(***************************************************************************)
C7_FreeOf(ports, inbounds) ==
    LET rts == BuildPortRuntime(ports, inbounds).runtimes
    IN  SumSeq([i \in 1..Len(rts) |->
                  LET active == Cardinality({k \in 1..Len(inbounds[rts[i].inbound_id].clientStats) :
                                    inbounds[rts[i].inbound_id].clientStats[k].enable # "false"})
                      room   == ports[i].max_active_clients - active
                  IN  IF room > 0 THEN room ELSE 0])

C7_Step(c) ==
    /\ (/\ pc[c] = "list_inbounds"
        /\ pc'[c] # "list_inbounds"
        /\ result'[c].kind # "XUIError"
        /\ BuildPortRuntime(loc[c].ports, remote).err = ""
        /\ C7_FreeOf(loc[c].ports, remote) < arg[c].quantity)
          => /\ pc'[c] = "xui_close"
             /\ result'[c] = [kind |-> "AllocationError",
                              msg |-> "Insufficient capacity",
                              free |-> C7_FreeOf(loc[c].ports, remote),
                              requested |-> arg[c].quantity]
    /\ result'[c].msg = "Insufficient capacity"
          => /\ NothingWritten(c)'
             /\ pc'[c] \in {"xui_close", "done"}

C7_InsufficientCapacityFailsFast == [][\A c \in Calls : C7_Step(c)]_vars

\* a call for 50 was refused against a panel whose first port is above its
\* max: free is 0 + 20
C7_Witness ==
    \E c \in Calls :
        /\ pc[c] = "done"
        /\ result[c] = [kind |-> "AllocationError", msg |-> "Insufficient capacity",
                        free |-> 20, requested |-> 50]

(***************************************************************************)
(* C9.  A call that reads a missing or inactive profile, a missing or      *)
(* inactive panel, or an empty port list ends in that step with            *)
(* AllocationError: its lock is free again, and it has called add_clients  *)
(* never and written nothing.                                              *)
(***************************************************************************)
C9_Unavailable(c) ==
    \/ /\ pc[c] = "get_profile"
       /\ \/ arg[c].profile_id \notin DOMAIN profilesTbl
          \/ ~profilesTbl[arg[c].profile_id].active
    \/ /\ pc[c] = "get_panel"
       /\ \/ loc[c].profile.panel_id \notin DOMAIN panelsTbl
          \/ ~panelsTbl[loc[c].profile.panel_id].active
    \/ /\ pc[c] = "list_ports"
       /\ Len(portsTbl[loc[c].profile.id]) = 0

C9_Step(c) ==
    (C9_Unavailable(c) /\ pc'[c] # pc[c])
       => /\ pc'[c] = "done"
          /\ result'[c].kind = "AllocationError"
          /\ lockOwner'[arg[c].lock] = 0
          /\ NothingWritten(c)'
          /\ remote' = remote
          /\ UNCHANGED dbVars

C9_UnavailableFailsFast == [][\A c \in Calls : C9_Step(c)]_vars

\* a call found its profile switched off, one its panel gone or inactive,
\* or one no ports
C9_Witness ==
    \E c \in Calls :
        /\ pc[c] = "done"
        /\ arg[c].profile_id \in DOMAIN profilesTbl
        /\ result[c].msg = "Profile is not available"
        /\ lockOwner[arg[c].lock] = 0

(***************************************************************************)
(* C10.  When staging places a unit on a port whose inbound protocol is    *)
(* not trojan, shadowsocks, vmess or vless, the call fails in the staging  *)
(* step with AllocationError; a call that failed so has called add_clients *)
(* for no inbound and has written nothing to the tables.                   *)
(***************************************************************************)
\* fill-first reaches port i when the ports before it cannot take the batch
C10_Reached(rts, i, quantity) ==
    /\ rts[i].max_active_clients > rts[i].active_clients
    /\ SumSeq([j \in 1..(i - 1) |->
                 IF rts[j].max_active_clients > rts[j].active_clients
                 THEN rts[j].max_active_clients - rts[j].active_clients ELSE 0])
          < quantity

C10_Step(c) ==
    /\ (/\ pc[c] = "stage"
        /\ pc'[c] # "stage"
        /\ \E i \in 1..Len(loc[c].port_runtimes) :
              /\ C10_Reached(loc[c].port_runtimes, i, arg[c].quantity)
              /\ loc[c].port_runtimes[i].protocol
                    \notin {"trojan", "shadowsocks", "vmess", "vless"})
          => /\ pc'[c] = "rollback"
             /\ result'[c].kind = "AllocationError"
             /\ result'[c].msg = "Unsupported inbound protocol for auto client creation"
    /\ result'[c].msg = "Unsupported inbound protocol for auto client creation"
          => /\ submitted'[c] = <<>>
             /\ ~Happened(c, "add_clients")'
             /\ pc'[c] \in {"rollback", "xui_close", "done"}
             /\ issuedTbl' = issuedTbl
             /\ countersTbl' = countersTbl

C10_UnsupportedProtocolFailsBeforeSubmit == [][\A c \in Calls : C10_Step(c)]_vars

\* a batch that spilt onto the http inbound was refused and rolled back
C10_Witness ==
    \E c \in Calls :
        /\ pc[c] = "done"
        /\ result[c].msg = "Unsupported inbound protocol for auto client creation"
        /\ Happened(c, "rollback")
        /\ loc[c].tx = <<>>

(***************************************************************************)
(* Port resolution under stale configuration.  The profile_ports rows of   *)
(* profile 1 were stored by create_profile against an earlier inbound      *)
(* list; since then inbounds may have been recreated under new ids, moved  *)
(* to other ports, or a second inbound may listen on the same port.  The   *)
(* calls run up to the end of the capacity check.                          *)
(***************************************************************************)
PortRow(inbound_id, port, max_active_clients) ==
    [inbound_id |-> inbound_id, port |-> port,
     max_active_clients |-> max_active_clients]

\* the rows of profile 1, whose ports UNIQUE(profile_id, port) keeps apart,
\* and the panel's inbound list: as in RemoteInit, with inbound 2 moved onto
\* the port of inbound 1, or with inbound 1 moved to port 15
InitPorts ==
    /\ profilesTbl = ProfileRows
    /\ panelsTbl = [q \in {1} |-> [active |-> TRUE]]
    /\ \E r1 \in {PortRow(1, 11, 2), PortRow(9, 11, 2), PortRow(9, 19, 2),
                 PortRow(1, 19, 2), PortRow(2, 11, 2)},
          r2 \in {PortRow(2, 12, 20), PortRow(8, 12, 20), PortRow(8, 11, 20)} :
          /\ r1.port # r2.port
          /\ portsTbl = [PortRows EXCEPT ![1] = <<r1, r2>>]
    /\ countersTbl = [p \in {1, 3, 4} |-> 0]
    /\ issuedTbl = {}
    /\ \E s1 \in Inbound1Stats :
          remote \in {RemoteInit(s1, <<>>),
                      [RemoteInit(s1, <<>>) EXCEPT ![2].port = 11],
                      [RemoteInit(s1, <<>>) EXCEPT ![1].port = 15]}
    /\ dbWriter = 0
    /\ profile_locks = [p \in {} |-> 0]
    /\ lockOwner = [l \in Calls |-> 0]
    /\ lockWaiters = [l \in Calls |-> <<>>]
    /\ pc = [c \in Calls |-> "idle"]
    /\ arg = [c \in Calls |-> [profile_id |-> 0, quantity |-> 0, lock |-> 0]]
    /\ loc = [c \in Calls |-> NoLocals]
    /\ result = [c \in Calls |-> NoResult]
    /\ trace = [c \in Calls |-> <<>>]
    /\ entered = <<>>
    /\ submitted = [c \in Calls |-> <<>>]
    /\ toggles = 0
    /\ helperCall = NoHelperCall

SpecPorts ==
    /\ InitPorts
    /\ [][\E c \in Calls :
            \/ \E quantity \in QuantityInputs : Call(c, 1, quantity)
            \/ Acquire(c)
            \/ GetProfile(c)
            \/ GetPanel(c)
            \/ ListPorts(c)
            \/ ListInbounds(c)
            \/ XuiClose(c)]_vars

(***************************************************************************)
(* C11.  As claimed: whenever the port number of a configured port matches *)
(* no remote inbound or more than one, the call that read the inbound list *)
(* fails with AllocationError.                                             *)
(***************************************************************************)
C11_PortMatches(pp, inbounds) ==
    {i \in DOMAIN inbounds : inbounds[i].port = pp.port}

C11_AnyPortMismatchRaises ==
    [][\A c \in Calls :
          (/\ pc[c] = "list_inbounds"
           /\ pc'[c] # "list_inbounds"
           /\ result'[c].kind # "XUIError"
           /\ \E k \in 1..Len(loc[c].ports) :
                 Cardinality(C11_PortMatches(loc[c].ports[k], remote)) # 1)
             => /\ result'[c].kind = "AllocationError"
                /\ result'[c].msg \in {"Inbound for port not found on panel",
                                       "Multiple inbounds found for port"}]_vars

(***************************************************************************)
(* C11 as amended.  Every configured port resolves to exactly one inbound: *)
(* the inbound with the stored id when there is one, whatever its port,    *)
(* and otherwise the only inbound on the configured port number.  The call *)
(* fails with AllocationError, naming the first such port, exactly when    *)
(* some configured port has no inbound with its stored id and its port     *)
(* number matches no inbound or more than one.                             *)
(***************************************************************************)
C11_Unresolvable(pp, inbounds) ==
    /\ \A i \in DOMAIN inbounds : i # pp.inbound_id
    /\ Cardinality(C11_PortMatches(pp, inbounds)) # 1

C11_Step(c) ==
    (/\ pc[c] = "list_inbounds"
     /\ pc'[c] # "list_inbounds"
     /\ result'[c].kind # "XUIError")
       => LET ports == loc[c].ports
              bad   == {k \in 1..Len(ports) : C11_Unresolvable(ports[k], remote)}
          IN  IF bad # {}
              THEN LET k == CHOOSE x \in bad : \A y \in bad : x <= y
                   IN  /\ pc'[c] = "xui_close"
                       /\ result'[c].kind = "AllocationError"
                       /\ result'[c].msg =
                             IF C11_PortMatches(ports[k], remote) = {}
                             THEN "Inbound for port not found on panel"
                             ELSE "Multiple inbounds found for port"
                       /\ loc'[c].port_runtimes = <<>>
              ELSE /\ result'[c].msg \notin {"Inbound for port not found on panel",
                                             "Multiple inbounds found for port"}
                   /\ pc'[c] = "begin" =>
                        /\ Len(loc'[c].port_runtimes) = Len(ports)
                        /\ \A k \in 1..Len(ports) :
                              LET rt == loc'[c].port_runtimes[k]
                              IN  /\ rt.inbound_id \in DOMAIN remote
                                  /\ rt.port = remote[rt.inbound_id].port
                                  /\ rt.max_active_clients = ports[k].max_active_clients
                                  /\ IF ports[k].inbound_id \in DOMAIN remote
                                     THEN rt.inbound_id = ports[k].inbound_id
                                     ELSE C11_PortMatches(ports[k], remote) = {rt.inbound_id}

C11_ResolvesByIdThenPort == [][\A c \in Calls : C11_Step(c)]_vars

\* a call passed the capacity check with one port resolved by its stored id
\* although nothing listens on its stored port number, and the other
\* resolved by port number because its stored id is gone
C11_Witness ==
    \E c \in Calls :
        /\ pc[c] = "begin"
        /\ loc[c].ports[1].inbound_id = 1
        /\ C11_PortMatches(loc[c].ports[1], remote) = {}
        /\ loc[c].port_runtimes[1].inbound_id = 1
        /\ loc[c].ports[2].inbound_id = 8
        /\ loc[c].port_runtimes[2].inbound_id = 2

(***************************************************************************)
(* Name allocation against a database that already holds issued_configs    *)
(* rows.  The rows were written under the names of their profiles          *)
(* (prefix, number, suffix); the clients they name need not be on the      *)
(* panel any more.                                                         *)
(***************************************************************************)
IssuedRow(config_name, profile_id) ==
    [config_name |-> config_name, profile_id |-> profile_id]

\* A1 of profile 3 (prefix A), a2 of profile 1, a12 of profile 2 (prefix a1)
IssuedRowsBefore ==
    {IssuedRow(<<"A", "1">>, 3), IssuedRow(<<"a", "2">>, 1),
     IssuedRow(<<"a", "1", "2">>, 2)}

InitNames ==
    /\ profilesTbl = ProfileRows
    /\ panelsTbl = [q \in {1} |-> [active |-> TRUE]]
    /\ portsTbl = PortRows
    /\ countersTbl = [p \in {1, 3, 4} |-> 0]
    /\ issuedTbl \in SUBSET IssuedRowsBefore
    /\ \E s1 \in Inbound1Stats, s3 \in Inbound3Stats : remote = RemoteInit(s1, s3)
    /\ dbWriter = 0
    /\ profile_locks = [p \in {} |-> 0]
    /\ lockOwner = [l \in Calls |-> 0]
    /\ lockWaiters = [l \in Calls |-> <<>>]
    /\ pc = [c \in Calls |-> "idle"]
    /\ arg = [c \in Calls |-> [profile_id |-> 0, quantity |-> 0, lock |-> 0]]
    /\ loc = [c \in Calls |-> NoLocals]
    /\ result = [c \in Calls |-> NoResult]
    /\ trace = [c \in Calls |-> <<>>]
    /\ entered = <<>>
    /\ submitted = [c \in Calls |-> <<>>]
    /\ toggles = 0
    /\ helperCall = NoHelperCall

SpecNames ==
    /\ InitNames
    /\ [][\E c \in Calls :
            \/ \E profile_id \in {1, 2} : Call(c, profile_id, 10)
            \/ Acquire(c)
            \/ GetProfile(c)
            \/ GetPanel(c)
            \/ ListPorts(c)
            \/ ListInbounds(c)
            \/ Begin(c)
            \/ BeginTimeout(c)
            \/ Stage(c)
            \/ AddClients(c)
            \/ GetSettings(c)
            \/ Rollback(c)
            \/ XuiClose(c)]_vars

\* the names call c has staged
StagedNames(c) == {loc[c].staged[k].config_name : k \in 1..Len(loc[c].staged)}

(***************************************************************************)
(* C12.  As claimed: every name a call has accepted has a lowercase form   *)
(* that is absent from the names it saw on the panel, is claimed once in   *)
(* its batch, and is absent from the lowercase forms of the config_name    *)
(* values of issued_configs.                                               *)
(***************************************************************************)
C12_AcceptedNamesAbsentEverywhere ==
    \A c \in Calls :
        /\ \A n \in StagedNames(c) :
              /\ Lower(n) \notin loc[c].existing_emails
              /\ Lower(n) \notin {Lower(r.config_name) : r \in issuedTbl}
        /\ \A j, k \in 1..Len(loc[c].staged) :
              j # k => Lower(loc[c].staged[j].config_name)
                          # Lower(loc[c].staged[k].config_name)

(***************************************************************************)
(* C13.  For each profile, the name numbers of the clients the panel       *)
(* accepted are strictly increasing and never used twice: within a call    *)
(* they increase in the order the clients were submitted, and every number *)
(* of a later call on the profile is above every number of an earlier one, *)
(* whether the calls failed before, during or after their add_clients.     *)
(***************************************************************************)
RECURSIVE C13_NumbersFrom(_, _)
\* the numbers of the clients the panel accepted from call c, in the order
\* of submission, from the k-th accepted add_clients on
C13_NumbersFrom(c, k) ==
    IF k > Len(submitted[c]) THEN <<>>
    ELSE LET clients == ClientsFor(loc[c].staged, submitted[c][k].inbound_id)
         IN  [j \in 1..Len(clients) |-> clients[j].number]
                \o C13_NumbersFrom(c, k + 1)

C13_Numbers(c) == C13_NumbersFrom(c, 1)

C13_NumbersIncreaseAndAreNotReused ==
    /\ \A c \in Calls :
          \A i, j \in 1..Len(C13_Numbers(c)) :
             i < j => C13_Numbers(c)[i] < C13_Numbers(c)[j]
    /\ \A c1, c2 \in Calls :
          (/\ c1 # c2
           /\ arg[c1].profile_id = arg[c2].profile_id
           /\ Before(c1, c2))
             => \A n1 \in SeqRange(C13_Numbers(c1)), n2 \in SeqRange(C13_Numbers(c2)) :
                   n1 < n2

\* two calls on profile 1 have had clients accepted, the first after its
\* candidate 3 was rejected for the panel's A3, and the first call failed
C13_Witness ==
    \E c1, c2 \in Calls :
        /\ c1 # c2
        /\ arg[c1].profile_id = 1
        /\ arg[c2].profile_id = 1
        /\ Before(c1, c2)
        /\ pc[c1] = "done"
        /\ SeqRange(C13_Numbers(c1)) = {1, 2, 4, 5, 6, 7, 8, 9, 10, 11}
        /\ C13_Numbers(c2) # <<>>

(***************************************************************************)
(* C14.  As claimed: once the panel has answered get_settings, the call    *)
(* goes on to resolve a link for each client, by the subscription fetch or *)
(* by the Link Builder.                                                    *)
(***************************************************************************)
C14_LinksAreResolvedAfterSettings ==
    [][\A c \in Calls :
          (/\ pc[c] = "get_settings"
           /\ pc'[c] # "get_settings"
           /\ result'[c].kind # "XUIError")
             => /\ pc'[c] = "resolve_links"
                /\ result'[c] = NoResult]_vars

(***************************************************************************)
(* C15.  As claimed: a call that ends without a link for some client,      *)
(* after the panel accepted its batch and answered get_settings, has       *)
(* failed with AllocationError, and issued_configs and the profile's       *)
(* last_number are as they were.  (Neither the subscription fetch nor the  *)
(* Link Builder is ever run, so no call past get_settings has a link.)     *)
(***************************************************************************)
C15_NoLinkFailsWithAllocationError ==
    \A c \in Calls :
        (/\ pc[c] = "done"
         /\ BatchSubmitted(c)
         /\ Happened(c, "get_settings")
         /\ result[c].kind # "XUIError")
           => /\ result[c].kind = "AllocationError"
              /\ issuedTbl = {}
              /\ \A p \in DOMAIN countersTbl : countersTbl[p] = 0

(***************************************************************************)
(* C17.  As claimed: once an add_clients call of its batch has succeeded,  *)
(* an attempt does not fail.                                               *)
(***************************************************************************)
C17_NoFailureAfterRemoteWrite ==
    \A c \in Calls : submitted[c] # <<>> => result[c].kind = ""

(***************************************************************************)
(* C17 as amended.  An attempt enters locked, capacity-checked,            *)
(* batch-staged and remote-committed in this order, each only from the one *)
(* before and with that stage's work done; it can fail from every one of   *)
(* them, also after add_clients calls of the batch have succeeded, and an  *)
(* attempt that has failed only rolls back, closes and ends.               *)
(***************************************************************************)
C17_Locked(c) == Happened(c, "lock")

C17_CapacityChecked(c) == loc[c].port_runtimes # <<>>

C17_BatchStaged(c) == loc[c].staged # <<>>

C17_StagedInbounds(c) ==
    {loc[c].staged[k].inbound_id : k \in 1..Len(loc[c].staged)}

C17_SubmittedInbounds(c) ==
    {submitted[c][k].inbound_id : k \in 1..Len(submitted[c])}

C17_RemoteCommitted(c) ==
    /\ C17_BatchStaged(c)
    /\ C17_SubmittedInbounds(c) = C17_StagedInbounds(c)

C17_StagesInOrder ==
    \A c \in Calls :
        /\ pc[c] \in LockedSteps => C17_Locked(c)
        /\ C17_CapacityChecked(c)
              => /\ C17_Locked(c)
                 /\ Happened(c, "list_inbounds")
                 /\ SumSeq([i \in 1..Len(loc[c].port_runtimes) |->
                              Max0(loc[c].port_runtimes[i].max_active_clients
                                     - loc[c].port_runtimes[i].active_clients)])
                       >= arg[c].quantity
        /\ pc[c] \in {"begin", "stage", "add_clients", "get_settings"}
              => C17_CapacityChecked(c) /\ result[c].kind = ""
        /\ C17_BatchStaged(c)
              => /\ C17_CapacityChecked(c)
                 /\ Happened(c, "begin")
                 /\ Len(loc[c].staged) = arg[c].quantity
        /\ pc[c] \in {"add_clients", "get_settings"} => C17_BatchStaged(c)
        /\ submitted[c] # <<>>
              => /\ C17_BatchStaged(c)
                 /\ C17_SubmittedInbounds(c) \subseteq C17_StagedInbounds(c)
        /\ (pc[c] = "get_settings" \/ Happened(c, "get_settings"))
              => C17_RemoteCommitted(c)
        /\ result[c].kind # "" => pc[c] \in {"rollback", "xui_close", "done"}
        /\ pc[c] \in {"rollback", "xui_close"} => result[c].kind # ""

\* one attempt failed in add_clients after the panel had accepted the
\* clients of its first inbound
C17_Witness ==
    \E c \in Calls :
        /\ pc[c] = "done"
        /\ submitted[c] # <<>>
        /\ result[c].msg = "add_clients failed"
        /\ C17_SubmittedInbounds(c) # C17_StagedInbounds(c)

(***************************************************************************)
(* C18.  A remote call that fails is fatal to its attempt and is not made  *)
(* again: the step in which list_inbounds, add_clients or get_settings     *)
(* fails ends the work of the attempt with XUIError, after it the attempt  *)
(* only rolls back, closes and ends without a result, and an attempt makes *)
(* list_inbounds and get_settings at most once and add_clients at most     *)
(* once per inbound of its batch.  (fetch_subscription is never called.)   *)
(***************************************************************************)
C18_Count(c, event) ==
    Cardinality({k \in 1..Len(trace[c]) : trace[c][k] = event})

C18_RemoteEvents == {"list_inbounds", "add_clients", "get_settings"}

C18_Step(c) ==
    /\ (/\ pc[c] = "list_inbounds"
        /\ trace'[c] # trace[c]
        /\ pc'[c] # "begin"
        /\ result'[c].kind # "AllocationError")
          => /\ result'[c].kind = "XUIError"
             /\ pc'[c] = "xui_close"
    /\ (/\ pc[c] = "add_clients"
        /\ trace'[c] # trace[c]
        /\ submitted'[c] = submitted[c])
          => /\ result'[c].kind = "XUIError"
             /\ pc'[c] = "rollback"
             /\ remote' = remote
    /\ (/\ pc[c] = "get_settings"
        /\ trace'[c] # trace[c])
          => /\ result'[c].kind \in {"XUIError", "AttributeError"}
             /\ pc'[c] = "rollback"
    /\ result[c].kind = "XUIError"
          => /\ pc[c] \in {"rollback", "xui_close", "done"}
             /\ result'[c] = result[c]
             /\ submitted'[c] = submitted[c]
             /\ \A k \in 1..Len(trace'[c]) :
                   k > Len(trace[c]) => trace'[c][k] \notin C18_RemoteEvents
    /\ C18_Count(c, "list_inbounds")' <= 1
    /\ C18_Count(c, "get_settings")' <= 1
    /\ C18_Count(c, "add_clients")' <= Len(submitted'[c]) + 1
    /\ C18_Count(c, "add_clients")' <= Cardinality(C17_StagedInbounds(c)')

C19_OnPanel(inbound_id, email) ==
    \E k \in 1..Len(remote[inbound_id].clientStats) :
        remote[inbound_id].clientStats[k].email = email

C19_TablesAsBefore ==
    /\ issuedTbl = {}
    /\ countersTbl = [p \in {1, 3, 4} |-> 0]

C19_FailureLeavesNothingAnywhere ==
    \A c \in Calls :
        (pc[c] = "done" /\ result[c].kind # "")
           => /\ C19_TablesAsBefore
              /\ \A k \in 1..Len(submitted[c]) :
                    \A e \in SeqRange(submitted[c][k].emails) :
                       ~C19_OnPanel(submitted[c][k].inbound_id, e)

(***************************************************************************)
(* C19 as amended.  When a call has ended in failure at any step, there is *)
(* no local credit: issued_configs and every profile's last_number are     *)
(* exactly as before the call, the counter row the call inserted for a     *)
(* profile without one is gone with the rollback, and the write lock is    *)
(* free of the call.  The clients that the call's accepted add_clients     *)
(* created are still on the panel.                                         *)
(***************************************************************************)
C19_NoLocalCreditOnFailure ==
    \A c \in Calls :
        (pc[c] = "done" /\ result[c].kind # "")
           => /\ C19_TablesAsBefore
              /\ loc[c].tx = <<>>
              /\ dbWriter # c
              /\ \A k \in 1..Len(submitted[c]) :
                    \A e \in SeqRange(submitted[c][k].emails) :
                       C19_OnPanel(submitted[c][k].inbound_id, e)

\* a call on profile 1 failed in its second add_clients after its first was
\* accepted; a call on profile 2, which had no counter row, failed after
\* its whole batch was accepted
C19_Witness ==
    \E c1, c2 \in Calls :
        /\ pc[c1] = "done"
        /\ arg[c1].profile_id = 1
        /\ Len(submitted[c1]) = 1
        /\ result[c1].msg = "add_clients failed"
        /\ pc[c2] = "done"
        /\ arg[c2].profile_id = 2
        /\ BatchSubmitted(c2)
        /\ Happened(c2, "rollback")

(***************************************************************************)
(* C20.  In one call, add_clients is invoked at most once per inbound, in  *)
(* the order in which the inbounds first received a staged client, each    *)
(* time with all the clients staged for that inbound and no others; a call *)
(* that has submitted its batch has made exactly as many add_clients calls *)
(* as its batch touches distinct inbounds, which is at most the number of  *)
(* configured ports whatever the quantity.                                 *)
(***************************************************************************)
C20_StagedFor(c, inbound_id) ==
    {loc[c].staged[k].config_name :
        k \in {j \in 1..Len(loc[c].staged) : loc[c].staged[j].inbound_id = inbound_id}}

C20_Invocations(c) ==
    Cardinality({k \in 1..Len(trace[c]) : trace[c][k] = "add_clients"})

C20_OneAddClientsPerInbound ==
    \A c \in Calls :
        /\ \A j, k \in 1..Len(submitted[c]) :
              j # k => submitted[c][j].inbound_id # submitted[c][k].inbound_id
        /\ \A k \in 1..Len(submitted[c]) :
              LET call == submitted[c][k]
              IN  /\ Len(call.emails) > 0
                  /\ SeqRange(call.emails) = C20_StagedFor(c, call.inbound_id)
                  /\ Len(call.emails) = Cardinality(C20_StagedFor(c, call.inbound_id))
        /\ Len(submitted[c]) <= C20_Invocations(c)
        /\ C20_Invocations(c) <= Cardinality(C17_StagedInbounds(c))
        /\ C20_Invocations(c) <= Len(loc[c].ports)
        /\ (pc[c] = "get_settings" \/ Happened(c, "get_settings"))
              => /\ C20_Invocations(c) = Cardinality(C17_StagedInbounds(c))
                 /\ Len(submitted[c]) = C20_Invocations(c)
                 /\ SumSeq([k \in 1..Len(submitted[c]) |-> Len(submitted[c][k].emails)])
                       = arg[c].quantity

\* a batch of 10 went out in two add_clients calls, 2 clients to the first
\* inbound and 8 to the second
C20_Witness ==
    \E c \in Calls :
        /\ Happened(c, "get_settings")
        /\ arg[c].quantity = 10
        /\ C20_Invocations(c) = 2
        /\ Len(submitted[c][1].emails) = 2
        /\ Len(submitted[c][2].emails) = 8

(***************************************************************************)
(* C25.  Once the aggregate check total_free >= quantity has passed, the   *)
(* port selection finds a port for every unit of the batch: no call ends   *)
(* with "Capacity check failed during allocation", and a call about to     *)
(* stage its batch has a snapshot on which the staging loop does not fail  *)
(* that way, also when a port's remote active count exceeds its max.       *)
(***************************************************************************)
C25_Snapshot(c) ==
    [issued_names    |-> {r.config_name : r \in issuedTbl},
     prefix          |-> loc[c].profile.prefix,
     suffix          |-> loc[c].profile.suffix,
     existing_emails |-> loc[c].existing_emails,
     port_runtimes   |-> loc[c].port_runtimes]

C25_OverMax(c) ==
    \E i \in 1..Len(loc[c].port_runtimes) :
        loc[c].port_runtimes[i].active_clients > loc[c].port_runtimes[i].max_active_clients

C25_SelectionNeverFailsAfterAggregateCheck ==
    \A c \in Calls :
        /\ result[c].msg # "Capacity check failed during allocation"
        /\ pc[c] \in {"begin", "stage"} =>
              /\ TotalFree(loc[c].port_runtimes) >= arg[c].quantity
              /\ StageBatch(arg[c].quantity, C25_Snapshot(c),
                            IF loc[c].profile.id \in DOMAIN countersTbl
                            THEN countersTbl[loc[c].profile.id] ELSE 0).err
                    # "Capacity check failed during allocation"

\* a batch was staged in full against a snapshot holding a port above its max
C25_Witness ==
    \E c \in Calls :
        /\ Happened(c, "stage")
        /\ C25_OverMax(c)
        /\ Len(loc[c].staged) = arg[c].quantity

(***************************************************************************)
(* C26.  The active-client count of a port is the number of entries of the *)
(* resolved inbound's clientStats whose enable flag is not explicitly      *)
(* false: entries with enable true or without an enable flag count,        *)
(* entries with enable false do not.                                       *)
(***************************************************************************)
C26_Entries(inbound_id, flags) ==
    {k \in 1..Len(remote[inbound_id].clientStats) :
        remote[inbound_id].clientStats[k].enable \in flags}

\* the step of a call that reads the inbound list and builds its runtimes
C26_Step(c) ==
    (pc[c] = "list_inbounds" /\ pc'[c] = "begin") =>
        \A i \in 1..Len(loc'[c].port_runtimes) :
            LET runtime == loc'[c].port_runtimes[i]
            IN  /\ runtime.active_clients
                      = Cardinality(C26_Entries(runtime.inbound_id, {"true", "absent"}))
                /\ runtime.active_clients
                      = Len(remote[runtime.inbound_id].clientStats)
                          - Cardinality(C26_Entries(runtime.inbound_id, {"false"}))

C26_ActiveCountSkipsOnlyExplicitFalse == [][\A c \in Calls : C26_Step(c)]_vars

\* a call counted 2 active clients on inbound 1, which holds one enabled
\* entry, one disabled entry and one entry without an enable flag
C26_Witness ==
    \E c \in Calls :
        /\ pc[c] = "begin"
        /\ loc[c].port_runtimes[1].inbound_id = 1
        /\ loc[c].port_runtimes[1].active_clients = 2
        /\ C26_Entries(1, {"true"}) # {}
        /\ C26_Entries(1, {"false"}) # {}
        /\ C26_Entries(1, {"absent"}) # {}

(***************************************************************************)
(* C21.  A step of an allocation call leaves every existing issued_configs *)
(* row in place and unmodified, leaves the profile_counters rows of the    *)
(* other profiles as they are, and leaves the profiles and profile_ports   *)
(* rows as they are: what it may do is add issued_configs rows and write   *)
(* the counter row of its own profile.                                     *)
(***************************************************************************)
C21_Step(c) ==
    pc'[c] # pc[c] =>
        /\ issuedTbl \subseteq issuedTbl'
        /\ \A p \in DOMAIN countersTbl \ {arg'[c].profile_id} :
              /\ p \in DOMAIN countersTbl'
              /\ countersTbl'[p] = countersTbl[p]
        /\ DOMAIN countersTbl' \subseteq DOMAIN countersTbl \cup {arg'[c].profile_id}
        /\ profilesTbl' = profilesTbl
        /\ portsTbl' = portsTbl

C27_Stored(c) ==
    IF arg[c].profile_id \in DOMAIN countersTbl THEN countersTbl[arg[c].profile_id] ELSE 0

C27_Number(c, k) == IF k = 0 THEN C27_Stored(c) ELSE loc[c].staged[k].number

C27_Collides(c, number) ==
    LET name == FormatName(loc[c].profile.prefix, number, loc[c].profile.suffix)
    IN  \/ Lower(name) \in loc[c].existing_emails
        \/ name \in {r.config_name : r \in issuedTbl}

Pending(op, args) == [op |-> op, args |-> args, out |-> [returned |-> FALSE]]

\* the service as constructed, with no call in progress
ServiceIdle ==
    /\ profilesTbl = ProfileRows
    /\ panelsTbl = [q \in {1} |-> [active |-> TRUE]]
    /\ portsTbl = PortRows
    /\ countersTbl = [p \in {1, 3, 4} |-> 0]
    /\ issuedTbl = {}
    /\ remote = RemoteInit(<<>>, <<>>)
    /\ dbWriter = 0
    /\ profile_locks = [p \in {} |-> 0]
    /\ lockOwner = [l \in Calls |-> 0]
    /\ lockWaiters = [l \in Calls |-> <<>>]
    /\ pc = [c \in Calls |-> "idle"]
    /\ arg = [c \in Calls |-> [profile_id |-> 0, quantity |-> 0, lock |-> 0]]
    /\ loc = [c \in Calls |-> NoLocals]
    /\ result = [c \in Calls |-> NoResult]
    /\ trace = [c \in Calls |-> <<>>]
    /\ entered = <<>>
    /\ submitted = [c \in Calls |-> <<>>]
    /\ toggles = 0

serviceVars ==
    <<dbVars, remote, dbWriter, lockVars, pc, arg, loc, result, trace, entered,
      submitted, toggles>>

(***************************************************************************)
(* Port selection on its own: the aggregate check of line 155 and the      *)
(* staging loop of lines 182-214 against a list of port runtimes.          *)
(***************************************************************************)
MaxPorts == 3

\* up to MaxPorts ports.  max_active_clients: create_profile accepts any
\* value above 0.  active_clients: what the panel holds for the port, which
\* is nothing, some, exactly 5 or more than 5
PortRuntimeInputs ==
    UNION {[1..n -> {2, 5, 10} \X {0, 1, 5, 6}] : n \in 1..MaxPorts}

\* the runtime of the i-th configured port is a _PortRuntime (lines 29-34)
InitFillFirst ==
    /\ ServiceIdle
    /\ \E input \in PortRuntimeInputs :
          helperCall = Pending("stage_batch",
                               [port_runtimes |->
                                   [i \in 1..Len(input) |->
                                      [inbound_id         |-> i,
                                       port               |-> 10 + i,
                                       max_active_clients |-> input[i][1],
                                       active_clients     |-> input[i][2],
                                       protocol           |-> "vless"]],
                                quantity |-> 10])

\* lines 154-158 and 182-214 with no name collisions: the aggregate check,
\* then one port selection per unit; lines 216-217 iterate the inbounds
StageBatchAlone ==
    /\ helperCall.op = "stage_batch"
    /\ ~helperCall.out.returned
    /\ LET args == helperCall.args
           ctx  == [issued_names    |-> {},
                    prefix          |-> <<"a">>,
                    suffix          |-> <<>>,
                    existing_emails |-> {},
                    port_runtimes   |-> args.port_runtimes]
           st   == StageBatch(args.quantity, ctx, 0)
       IN  helperCall' =
             [helperCall EXCEPT !.out =
                IF CapacityRejects(TotalFree(args.port_runtimes), args.quantity)
                THEN [returned |-> TRUE, err |-> "Insufficient capacity",
                      staged |-> <<>>, add_clients |-> <<>>]
                ELSE [returned |-> TRUE, err |-> st.err, staged |-> st.staged,
                      add_clients |-> InboundOrder(st.staged)]]
    /\ UNCHANGED serviceVars

SpecFillFirst == InitFillFirst /\ [][StageBatchAlone]_vars

(***************************************************************************)
(* C24.  Port selection is fill-first: each unit of a batch goes to the    *)
(* first port, in configured order, whose remote active count plus the     *)
(* units already placed on it in this batch is below its max, so a later   *)
(* port receives a unit only when every earlier port is full; two ports of *)
(* max 5 with 0 active and quantity 10 get 5 and 5, submitted as two       *)
(* add_clients calls.                                                      *)
(***************************************************************************)
\* units placed on port i before unit k
C24_PlacedBefore(i, k) ==
    Cardinality({j \in 1..(k - 1) : helperCall.out.staged[j].inbound_id = i})

C24_Full(i, k) ==
    helperCall.args.port_runtimes[i].active_clients + C24_PlacedBefore(i, k)
        >= helperCall.args.port_runtimes[i].max_active_clients

C24_PlacedOn(i) ==
    Cardinality({j \in 1..Len(helperCall.out.staged) :
                    helperCall.out.staged[j].inbound_id = i})

C24_TwoPortsOfFive ==
    /\ Len(helperCall.args.port_runtimes) = 2
    /\ \A i \in {1, 2} :
          /\ helperCall.args.port_runtimes[i].max_active_clients = 5
          /\ helperCall.args.port_runtimes[i].active_clients = 0

C24_FillFirst ==
    (helperCall.op = "stage_batch" /\ helperCall.out.returned /\ helperCall.out.err = "")
      => /\ Len(helperCall.out.staged) = helperCall.args.quantity
         /\ \A k \in 1..Len(helperCall.out.staged) :
               LET i == helperCall.out.staged[k].inbound_id
               IN  /\ i \in 1..Len(helperCall.args.port_runtimes)
                   /\ ~C24_Full(i, k)
                   /\ \A earlier \in 1..(i - 1) : C24_Full(earlier, k)
         /\ C24_TwoPortsOfFive
               => /\ C24_PlacedOn(1) = 5
                  /\ C24_PlacedOn(2) = 5
                  /\ helperCall.out.add_clients = <<1, 2>>

\* the batch of 10 was placed on two ports of max 5 with 0 active
C24_Witness ==
    /\ helperCall.op = "stage_batch"
    /\ helperCall.out.returned
    /\ helperCall.out.err = ""
    /\ C24_TwoPortsOfFive
    /\ Len(helperCall.out.staged) = 10

(***************************************************************************)
(* Python's int has no width.  The byte and millisecond amounts of the     *)
(* client payload do not fit the checker's integers, so a non-negative     *)
(* int is held as its base-10000 digits, least significant first, without  *)
(* leading zeros (0 is the empty sequence), and is computed digit by digit *)
(* with carries.                                                           *)
(***************************************************************************)
BigBase == 10000

RECURSIVE BigOfNat(_)
\* the digits of a small non-negative number
BigOfNat(n) == IF n = 0 THEN <<>> ELSE <<n % BigBase>> \o BigOfNat(n \div BigBase)

RECURSIVE BigMulFrom(_, _, _)
BigMulFrom(a, m, carry) ==
    IF a = <<>> THEN BigOfNat(carry)
    ELSE LET t == a[1] * m + carry
         IN  <<t % BigBase>> \o BigMulFrom(Tail(a), m, t \div BigBase)

\* a * m for a small factor 0 <= m < BigBase
BigMul(a, m) == IF m = 0 THEN <<>> ELSE BigMulFrom(a, m, 0)

RECURSIVE BigAddFrom(_, _, _)
BigAddFrom(a, b, carry) ==
    IF a = <<>> /\ b = <<>> THEN BigOfNat(carry)
    ELSE LET x == IF a = <<>> THEN 0 ELSE a[1]
             y == IF b = <<>> THEN 0 ELSE b[1]
             t == x + y + carry
         IN  <<t % BigBase>> \o BigAddFrom(IF a = <<>> THEN a ELSE Tail(a),
                                           IF b = <<>> THEN b ELSE Tail(b),
                                           t \div BigBase)

\* a + b
BigAdd(a, b) == BigAddFrom(a, b, 0)

(***************************************************************************)
(* Credential Synthesizer: _build_client_payload, lines 364-398.  The      *)
(* clock and the random draws are arguments.                               *)
(***************************************************************************)
ExpiryTime_relative(expiry_days, now_ms) ==
    IF expiry_days <= 0 THEN <<>>
    ELSE BigMul(BigMul(BigMul(BigMul(BigOfNat(expiry_days), 24), 60), 60), 1000)

\* line 373: 0 if expiry_days <= 0 else now_ms + (expiry_days * 24 * 60 * 60 * 1000)
ExpiryTime(expiry_days, now_ms) ==
    IF expiry_days <= 0 THEN <<>>
    ELSE BigAdd(now_ms,
                BigMul(BigMul(BigMul(BigMul(BigOfNat(expiry_days), 24), 60), 60), 1000))

\* the random draws of one payload: the subId, a uuid4 (two groups stand for
\* its five; str(uuid4()) joins them by "-", uuid4().hex leaves the "-" out)
\* and a token_urlsafe value
RandomInputs ==
    { [subId |-> <<"k", "3">>, uuid |-> <<<<"1", "f">>, <<"a", "0">>>>,
       token |-> <<"Z", "q", "-", "_", "7">>],
      [subId |-> <<"x", "9">>, uuid |-> <<<<"c", "4">>, <<"9", "e">>>>,
       token |-> <<"a", "_", "B">>] }

\* _build_client_payload: the payload, or the AllocationError of line 396.
\* totalGB is int(traffic_gb) * 1024 * 1024 * 1024 (line 374)
BuildClientPayload(protocol, email, traffic_gb, expiry_days, now_ms, random) ==
    LET common == [email      |-> email,
                   limitIp    |-> 0,
                   totalGB    |-> BigMul(BigMul(BigMul(BigOfNat(traffic_gb), 1024), 1024),
                                         1024),
                   expiryTime |-> ExpiryTime(expiry_days, now_ms),
                   enable     |-> TRUE,
                   subId      |-> random.subId,
                   comment    |-> <<>>,
                   tgId       |-> 0]
    IN  IF protocol = "trojan"
        THEN [raised |-> FALSE,
              payload |-> common @@ [password |-> random.uuid[1] \o random.uuid[2]]]
        ELSE IF protocol = "shadowsocks"
        THEN [raised |-> FALSE,
              payload |-> common @@ [password |-> random.token]]
        ELSE IF protocol \in {"vmess", "vless"}
        THEN [raised |-> FALSE,
              payload |-> common @@ [id       |-> random.uuid[1] \o <<"-">> \o random.uuid[2],
                                     security |-> <<"a", "u", "t", "o">>,
                                     flow     |-> <<>>]]
        ELSE [raised |-> TRUE,
              payload |-> "Unsupported inbound protocol for auto client creation"]

\* protocol: the four supported ones, one the allocator cannot create
\* clients for, and an inbound without a protocol.  traffic_gb: create_profile
\* refuses negative values.  expiry_days: as stored (0, 1, 30) and a negative
\* value, which the helper accepts.  now_ms, int(time.time() * 1000): the
\* epoch itself and 1 700 000 000 000
InitPayload ==
    /\ ServiceIdle
    /\ \E protocol \in {"trojan", "shadowsocks", "vmess", "vless", "http", ""},
          traffic_gb \in {0, 1, 50}, expiry_days \in {0 - 1, 0, 1, 30},
          now_ms \in {<<>>, <<0, 0, 7000, 1>>}, random \in RandomInputs :
          helperCall = Pending("build_client_payload",
                               [protocol |-> protocol, email |-> <<"a", "1">>,
                                traffic_gb |-> traffic_gb, expiry_days |-> expiry_days,
                                now_ms |-> now_ms, random |-> random])

ApplyBuildClientPayload ==
    /\ helperCall.op = "build_client_payload"
    /\ ~helperCall.out.returned
    /\ LET args == helperCall.args
           got  == BuildClientPayload(args.protocol, args.email, args.traffic_gb,
                                      args.expiry_days, args.now_ms, args.random)
       IN  helperCall' = [helperCall EXCEPT !.out =
                            [returned |-> TRUE, raised |-> got.raised,
                             payload |-> got.payload]]
    /\ UNCHANGED serviceVars

SpecPayload == InitPayload /\ [][ApplyBuildClientPayload]_vars

(***************************************************************************)
(* C29.  For every supported protocol the payload has expiryTime 0 when    *)
(* expiry_days <= 0 and now_ms + expiry_days * 86400 * 1000 otherwise,     *)
(* totalGB = traffic_gb * 1024^3, and enable true.                         *)
(***************************************************************************)
C29_Built ==
    /\ helperCall.op = "build_client_payload"
    /\ helperCall.out.returned
    /\ helperCall.args.protocol \in SupportedProtocols

\* days * 86400 * 1000 and gb * 1024^3, multiplied out another way
C29_Milliseconds(expiry_days) == BigMul(BigOfNat(expiry_days * 86400), 1000)

C29_Bytes(traffic_gb) == BigMul(BigOfNat(traffic_gb * 1024 * 1024), 1024)

C29_PayloadAmounts ==
    C29_Built =>
        LET args    == helperCall.args
            payload == helperCall.out.payload
        IN  /\ ~helperCall.out.raised
            /\ payload.enable = TRUE
            /\ payload.totalGB = C29_Bytes(args.traffic_gb)
            /\ args.traffic_gb = 50 => payload.totalGB = <<1200, 8709, 536>>
            /\ args.traffic_gb = 1 => payload.totalGB = <<1824, 7374, 10>>
            /\ args.traffic_gb = 0 => payload.totalGB = <<>>
            /\ args.expiry_days <= 0 => payload.expiryTime = <<>>
            /\ args.expiry_days > 0 =>
                  payload.expiryTime = BigAdd(C29_Milliseconds(args.expiry_days), args.now_ms)
            /\ (args.expiry_days = 30 /\ args.now_ms = <<0, 0, 7000, 1>>)
                  => payload.expiryTime = <<0, 9200, 7025, 1>>
            /\ (args.expiry_days = 1 /\ args.now_ms = <<>>)
                  => payload.expiryTime = <<0, 8640>>

\* a vless payload for 50 GB and 30 days built at 1 700 000 000 000 ms:
\* 53 687 091 200 bytes, expiring at 1 702 592 000 000 ms
C29_Witness ==
    /\ C29_Built
    /\ helperCall.args.protocol = "vless"
    /\ helperCall.args.traffic_gb = 50
    /\ helperCall.args.expiry_days = 30
    /\ helperCall.out.payload.totalGB = <<1200, 8709, 536>>
    /\ helperCall.out.payload.expiryTime = <<0, 9200, 7025, 1>>

(***************************************************************************)
(* Link Builder: _extract_host_port, lines 413-438.  urlparse(base_url) is *)
(* the library's: its hostname ("" for None) and port (0 for None) are     *)
(* arguments.  A JSON value handed to int() either converts or raises      *)
(* TypeError/ValueError.                                                   *)
(***************************************************************************)
RawInt(value) == [converts |-> TRUE, value |-> value]

\* None, or text that is not a number
RawNotInt == [converts |-> FALSE, value |-> 0]

\* try: int(raw) except (TypeError, ValueError): 0
IntOrZero(raw) == IF raw.converts THEN raw.value ELSE 0

RECURSIVE LStrip(_)
LStrip(s) == IF s # <<>> /\ Head(s) = " " THEN LStrip(Tail(s)) ELSE s

RECURSIVE RStrip(_)
RStrip(s) == IF s # <<>> /\ s[Len(s)] = " " THEN RStrip(SubSeq(s, 1, Len(s) - 1)) ELSE s

\* str.strip()
Strip(s) == RStrip(LStrip(s))

ExtractHostPort_panel_port_first(parsed, inbound, stream) ==
    LET external_proxy == stream.externalProxy
        first_is_dict  == /\ external_proxy.is_list
                          /\ external_proxy.entries # <<>>
                          /\ external_proxy.entries[1].is_dict
        ext_host       == IF first_is_dict THEN Strip(external_proxy.entries[1].dest)
                          ELSE <<>>
        ext_port       == IF first_is_dict THEN IntOrZero(external_proxy.entries[1].port)
                          ELSE 0
        declared       == IntOrZero(inbound.port)
    IN  [host |-> IF ext_host # <<>> THEN ext_host ELSE parsed.hostname,
         port |-> IF parsed.port # 0 THEN parsed.port
                  ELSE IF ext_port > 0 THEN ext_port ELSE declared]

\* _extract_host_port
ExtractHostPort(parsed, inbound, stream) ==
    LET external_proxy == stream.externalProxy
        first_is_dict  == /\ external_proxy.is_list
                          /\ external_proxy.entries # <<>>
                          /\ external_proxy.entries[1].is_dict
        ext_host       == IF first_is_dict THEN Strip(external_proxy.entries[1].dest)
                          ELSE <<>>
        ext_port       == IF first_is_dict THEN IntOrZero(external_proxy.entries[1].port)
                          ELSE 0
        host           == IF ext_host # <<>> THEN ext_host ELSE parsed.hostname
        port           == IF ext_port > 0 THEN ext_port ELSE IntOrZero(inbound.port)
    IN  [host |-> host,
         port |-> IF port <= 0 /\ parsed.port # 0 THEN parsed.port ELSE port]

\* urlparse of the panel's base URL: with and without a hostname, with and
\* without an explicit port
ParsedInputs ==
    [hostname : {<<>>, <<"p", ".", "i", "o">>}, port : {0, 2053}]

ProxyEntry(dest, port) == [is_dict |-> TRUE, dest |-> dest, port |-> port]

\* stream["externalProxy"]: absent or not a list, an empty list, a list
\* whose first entry is not an object, a list of one entry, a list of two.
\* An entry's dest is absent, blanks only, a name or a name between blanks;
\* its port is usable, 0 or not a number
\* inbound["port"]: a usable port, 0, a negative number, no number
InitHostPort ==
    /\ ServiceIdle
    /\ \E parsed \in ParsedInputs,
          port \in {RawInt(443), RawInt(0), RawInt(0 - 1), RawNotInt},
          external_proxy \in
            LET not_dict == [is_dict |-> FALSE, dest |-> <<>>, port |-> RawNotInt]
                dests    == {<<>>, <<" ">>, <<"c", "d", "n", ".", "i", "o">>,
                             <<" ", "c", "d", "n", ".", "i", "o", " ">>}
                ports    == {RawInt(8443), RawInt(0), RawNotInt}
                entries  == {ProxyEntry(dest, p) : dest \in dests, p \in ports}
                second   == ProxyEntry(<<"b", ".", "i", "o">>, RawInt(9443))
            IN  {[is_list |-> FALSE, entries |-> <<>>], [is_list |-> TRUE, entries |-> <<>>],
                 [is_list |-> TRUE, entries |-> <<not_dict>>]}
                  \cup {[is_list |-> TRUE, entries |-> <<e>>] : e \in entries}
                  \cup {[is_list |-> TRUE, entries |-> <<e, second>>] : e \in entries} :
          helperCall = Pending("extract_host_port",
                               [parsed  |-> parsed,
                                inbound |-> [port |-> port],
                                stream  |-> [externalProxy |-> external_proxy]])

ApplyExtractHostPort ==
    /\ helperCall.op = "extract_host_port"
    /\ ~helperCall.out.returned
    /\ LET args == helperCall.args
           got  == ExtractHostPort(args.parsed, args.inbound, args.stream)
       IN  helperCall' = [helperCall EXCEPT !.out =
                            [returned |-> TRUE, host |-> got.host, port |-> got.port]]
    /\ UNCHANGED serviceVars

SpecHostPort == InitHostPort /\ [][ApplyExtractHostPort]_vars

(***************************************************************************)
(* C30.  The host of a fallback link is the dest of the first              *)
(* externalProxy entry when that is non-empty (read without surrounding    *)
(* blanks), otherwise the hostname of the panel's base URL; the port is    *)
(* the port of the first externalProxy entry when positive, otherwise the  *)
(* inbound's declared port, and the base URL's own port is used only when  *)
(* the port resolved so far is not positive.                               *)
(***************************************************************************)
C30_Resolved == helperCall.op = "extract_host_port" /\ helperCall.out.returned

\* the first entry of externalProxy, when there is one and it is an object
C30_HasFirst ==
    /\ helperCall.args.stream.externalProxy.is_list
    /\ Len(helperCall.args.stream.externalProxy.entries) >= 1
    /\ helperCall.args.stream.externalProxy.entries[1].is_dict

C30_First == helperCall.args.stream.externalProxy.entries[1]

C30_Number(raw) == IF raw.converts THEN raw.value ELSE 0

C30_PortSoFar ==
    IF C30_HasFirst /\ C30_Number(C30_First.port) > 0
    THEN C30_Number(C30_First.port)
    ELSE C30_Number(helperCall.args.inbound.port)

C30_HostAndPort ==
    C30_Resolved =>
        LET out    == helperCall.out
            parsed == helperCall.args.parsed
        IN  /\ (C30_HasFirst /\ C30_First.dest \in {<<"c", "d", "n", ".", "i", "o">>, <<" ", "c", "d", "n", ".", "i", "o", " ">>})
                  => out.host = <<"c", "d", "n", ".", "i", "o">>
            /\ (~C30_HasFirst \/ C30_First.dest \in {<<>>, <<" ">>})
                  => out.host = parsed.hostname
            /\ C30_PortSoFar > 0 => out.port = C30_PortSoFar
            /\ (C30_PortSoFar <= 0 /\ parsed.port # 0) => out.port = parsed.port
            /\ (C30_PortSoFar <= 0 /\ parsed.port = 0) => out.port = C30_PortSoFar
            /\ out.port = parsed.port
                  => (C30_PortSoFar <= 0 \/ C30_PortSoFar = parsed.port)

\* the override wins over the panel's host and the declared port: cdn.io
\* and 8443 although the inbound declares 443 and the panel is p.io:2053
C30_Witness ==
    /\ C30_Resolved
    /\ C30_HasFirst
    /\ Len(helperCall.args.stream.externalProxy.entries) = 2
    /\ helperCall.args.parsed = [hostname |-> <<"p", ".", "i", "o">>, port |-> 2053]
    /\ helperCall.args.inbound.port = RawInt(443)
    /\ helperCall.out.host = <<"c", "d", "n", ".", "i", "o">>
    /\ helperCall.out.port = 8443

(***************************************************************************)
(* Text as the Link Builder handles it.  A str is a sequence of            *)
(* characters; the characters are those of printable ASCII, which encode   *)
(* to one byte each.                                                       *)
(***************************************************************************)
\* the characters with codes 32..126, in order; code 96 has no spelling in
\* a string of this language and is held by its name
AsciiChars ==
    <<" ", "!", "\"", "#", "$", "%", "&", "'", "(", ")", "*", "+", ",",
      "-", ".", "/", "0", "1", "2", "3", "4", "5", "6", "7", "8", "9", ":",
      ";", "<", "=", ">", "?", "@", "A", "B", "C", "D", "E", "F", "G", "H",
      "I", "J", "K", "L", "M", "N", "O", "P", "Q", "R", "S", "T", "U", "V",
      "W", "X", "Y", "Z", "[", "\\", "]", "^", "_", "grave", "a", "b", "c",
      "d", "e", "f", "g", "h", "i", "j", "k", "l", "m", "n", "o", "p", "q",
      "r", "s", "t", "u", "v", "w", "x", "y", "z", "{", "|", "}", "~">>

IndexOf(seq, x) == CHOOSE i \in 1..Len(seq) : seq[i] = x

\* ord() and chr()
Ord(ch) == 31 + IndexOf(AsciiChars, ch)

Chr(code) == AsciiChars[code - 31]

\* str.encode() and bytes.decode()
Encode(s) == [i \in 1..Len(s) |-> Ord(s[i])]

Decode(bytes) == [i \in 1..Len(bytes) |-> Chr(bytes[i])]

\* the value is present and not empty ("x or default")
OrDefault(s, default) == IF s = <<>> THEN default ELSE s

\* dict.get(key) or "": the text stored under key, "" when the key is absent
GetText(dict, key) == IF key \in DOMAIN dict THEN dict[key] ELSE <<>>

\* needle in haystack
Contains(haystack, needle) ==
    \E i \in 1..(Len(haystack) - Len(needle) + 1) :
        SubSeq(haystack, i, i + Len(needle) - 1) = needle

\* the characters quote() never escapes, with safe="-._~"
Unreserved ==
    {AsciiChars[i] : i \in (Ord("0") - 31)..(Ord("9") - 31)}
      \cup {AsciiChars[i] : i \in (Ord("A") - 31)..(Ord("Z") - 31)}
      \cup {AsciiChars[i] : i \in (Ord("a") - 31)..(Ord("z") - 31)}
      \cup {"-", ".", "_", "~"}

PercentEncoded(ch) ==
    LET hex == <<"0", "1", "2", "3", "4", "5", "6", "7", "8", "9", "A", "B", "C", "D", "E", "F">>
    IN  <<"%", hex[(Ord(ch) \div 16) + 1], hex[(Ord(ch) % 16) + 1]>>

RECURSIVE Quote(_)
\* urllib.parse.quote(s, safe="-._~")
Quote(s) ==
    IF s = <<>> THEN <<>>
    ELSE (IF Head(s) \in Unreserved THEN <<Head(s)>> ELSE PercentEncoded(Head(s)))
            \o Quote(Tail(s))

RECURSIVE QuotePlus(_)
\* urllib.parse.quote_plus(s), which urlencode applies to keys and values
QuotePlus(s) ==
    IF s = <<>> THEN <<>>
    ELSE (IF Head(s) \in Unreserved THEN <<Head(s)>>
          ELSE IF Head(s) = " " THEN <<"+">>
          ELSE PercentEncoded(Head(s)))
            \o QuotePlus(Tail(s))

RECURSIVE UrlEncode(_)
\* urllib.parse.urlencode(params): key=value pairs joined by "&", in the
\* order the keys were set
UrlEncode(params) ==
    IF params = <<>> THEN <<>>
    ELSE QuotePlus(params[1][1]) \o <<"=">> \o QuotePlus(params[1][2])
            \o (IF Len(params) = 1 THEN <<>> ELSE <<"&">> \o UrlEncode(Tail(params)))

\* params[key] = value, and params.get(key, default)
SetParam(params, key, value) ==
    IF \E i \in 1..Len(params) : params[i][1] = key
    THEN [i \in 1..Len(params) |-> IF params[i][1] = key THEN <<key, value>> ELSE params[i]]
    ELSE Append(params, <<key, value>>)

GetParam(params, key, default) ==
    IF \E i \in 1..Len(params) : params[i][1] = key
    THEN params[CHOOSE i \in 1..Len(params) : params[i][1] = key][2]
    ELSE default

\* the alphabets of base64.b64encode and base64.urlsafe_b64encode
B64Standard ==
    <<"A", "B", "C", "D", "E", "F", "G", "H", "I", "J", "K", "L", "M", "N",
      "O", "P", "Q", "R", "S", "T", "U", "V", "W", "X", "Y", "Z", "a", "b",
      "c", "d", "e", "f", "g", "h", "i", "j", "k", "l", "m", "n", "o", "p",
      "q", "r", "s", "t", "u", "v", "w", "x", "y", "z", "0", "1", "2", "3",
      "4", "5", "6", "7", "8", "9", "+", "/">>

B64UrlSafe ==
    <<"A", "B", "C", "D", "E", "F", "G", "H", "I", "J", "K", "L", "M", "N",
      "O", "P", "Q", "R", "S", "T", "U", "V", "W", "X", "Y", "Z", "a", "b",
      "c", "d", "e", "f", "g", "h", "i", "j", "k", "l", "m", "n", "o", "p",
      "q", "r", "s", "t", "u", "v", "w", "x", "y", "z", "0", "1", "2", "3",
      "4", "5", "6", "7", "8", "9", "-", "_">>

RECURSIVE B64EncodeWith(_, _)
\* three bytes become four characters; one or two bytes left over are
\* padded with "="
B64EncodeWith(alphabet, bytes) ==
    IF bytes = <<>> THEN <<>>
    ELSE IF Len(bytes) = 1
    THEN LET n == bytes[1] * 16
         IN  <<alphabet[(n \div 64) + 1], alphabet[(n % 64) + 1], "=", "=">>
    ELSE IF Len(bytes) = 2
    THEN LET n == bytes[1] * 1024 + bytes[2] * 4
         IN  <<alphabet[(n \div 4096) + 1], alphabet[((n \div 64) % 64) + 1],
               alphabet[(n % 64) + 1], "=">>
    ELSE LET n == bytes[1] * 65536 + bytes[2] * 256 + bytes[3]
         IN  <<alphabet[(n \div 262144) + 1], alphabet[((n \div 4096) % 64) + 1],
               alphabet[((n \div 64) % 64) + 1], alphabet[(n % 64) + 1]>>
                \o B64EncodeWith(alphabet, SubSeq(bytes, 4, Len(bytes)))

RECURSIVE RStripPadding(_)
\* str.rstrip("=")
RStripPadding(s) ==
    IF s # <<>> /\ s[Len(s)] = "=" THEN RStripPadding(SubSeq(s, 1, Len(s) - 1)) ELSE s

RECURSIVE B64DecodeWith(_, _)
\* what a reader of the link does: four characters become three bytes; two
\* or three characters left over (padding dropped) become one or two bytes
B64DecodeWith(alphabet, chars) ==
    LET v(i) == IndexOf(alphabet, chars[i]) - 1
    IN  IF Len(chars) < 2 THEN <<>>
        ELSE IF Len(chars) = 2
        THEN <<(v(1) * 64 + v(2)) \div 16>>
        ELSE IF Len(chars) = 3
        THEN LET n == v(1) * 4096 + v(2) * 64 + v(3)
             IN  <<n \div 1024, (n \div 4) % 256>>
        ELSE LET n == v(1) * 262144 + v(2) * 4096 + v(3) * 64 + v(4)
             IN  <<n \div 65536, (n \div 256) % 256, n % 256>>
                    \o B64DecodeWith(alphabet, SubSeq(chars, 5, Len(chars)))

RECURSIVE JsonEscape(_)
\* json.dumps of a str, ensure_ascii=False: quotes and backslashes escaped
JsonEscape(s) ==
    IF s = <<>> THEN <<>>
    ELSE (IF Head(s) \in {"\"", "\\"} THEN <<"\\", Head(s)>> ELSE <<Head(s)>>)
            \o JsonEscape(Tail(s))

RECURSIVE JsonMembers(_)
JsonMembers(pairs) ==
    IF pairs = <<>> THEN <<>>
    ELSE LET string(t) == <<"\"">> \o JsonEscape(t) \o <<"\"">>
         IN  string(pairs[1][1]) \o <<":">> \o string(pairs[1][2])
            \o (IF Len(pairs) = 1 THEN <<>> ELSE <<",">> \o JsonMembers(Tail(pairs)))

\* json.dumps(obj, ensure_ascii=False, separators=(",", ":")) of a dict of
\* str values, keys in insertion order
JsonDumps(pairs) == <<"{">> \o JsonMembers(pairs) \o <<"}">>

\* str.lower() of text
LowerText(s) ==
    [i \in 1..Len(s) |->
        IF Ord(s[i]) >= Ord("A") /\ Ord(s[i]) <= Ord("Z") THEN Chr(Ord(s[i]) + 32) ELSE s[i]]

RECURSIVE JoinNonEmpty(_)
\* ",".join(str(x) for x in items if str(x))
JoinNonEmpty(items) ==
    IF items = <<>> THEN <<>>
    ELSE LET rest == JoinNonEmpty(Tail(items))
         IN  IF Head(items) = <<>> THEN rest
             ELSE IF rest = <<>> THEN Head(items)
             ELSE Head(items) \o <<",">> \o rest

\* params[key] = value when value is not empty
SetIfText(params, key, value) ==
    IF value = <<>> THEN params ELSE SetParam(params, key, value)

(***************************************************************************)
(* Link Builder, lines 450-606.  streamSettings and settings are taken as  *)
(* _parse_json_obj leaves them (an absent or unreadable object is one with *)
(* every field empty), list-valued fields as _first_str reads them.        *)
(***************************************************************************)
\* _apply_stream_query
ApplyStreamQuery(params, stream, network) ==
    LET net == LowerText(network)
    IN  IF net = <<"t", "c", "p">>
        THEN LET header_type == OrDefault(stream.tcpSettings.headerType, <<"n", "o", "n", "e">>)
                 typed       == SetParam(params, <<"h", "e", "a", "d", "e", "r", "T", "y", "p", "e">>, header_type)
             IN  IF header_type = <<"h", "t", "t", "p">>
                 THEN SetIfText(SetIfText(typed, <<"p", "a", "t", "h">>, stream.tcpSettings.path),
                                <<"h", "o", "s", "t">>, stream.tcpSettings.host)
                 ELSE typed
        ELSE IF net = <<"w", "s">>
        THEN SetIfText(SetIfText(params, <<"p", "a", "t", "h">>, stream.wsSettings.path),
                       <<"h", "o", "s", "t">>, stream.wsSettings.host)
        ELSE IF net = <<"g", "r", "p", "c">>
        THEN SetIfText(params, <<"s", "e", "r", "v", "i", "c", "e", "N", "a", "m", "e">>, stream.grpcSettings.serviceName)
        ELSE params

\* _apply_security_query
ApplySecurityQuery(params, stream, security) ==
    LET sec == LowerText(security)
    IN  IF sec = <<"t", "l", "s">>
        THEN LET tls     == stream.tlsSettings
                 named   == SetIfText(params, <<"s", "n", "i">>, tls.serverName)
                 alpned  == IF tls.alpn # <<>>
                            THEN SetParam(named, <<"a", "l", "p", "n">>, JoinNonEmpty(tls.alpn))
                            ELSE named
             IN  SetIfText(alpned, <<"f", "p">>, tls.fingerprint)
        ELSE IF sec = <<"r", "e", "a", "l", "i", "t", "y">>
        THEN LET reality == stream.realitySettings
             IN  SetIfText(
                   SetIfText(
                     SetIfText(
                       SetIfText(
                         SetIfText(params, <<"s", "n", "i">>, reality.serverName),
                         <<"p", "b", "k">>, reality.publicKey),
                       <<"s", "i", "d">>, reality.shortId),
                     <<"s", "p", "x">>, reality.spiderX),
                   <<"f", "p">>, reality.fingerprint)
        ELSE params

HostPortMissing_host_only(host, port) == host = <<>>

\* line 536: if not host or port <= 0: return None
HostPortMissing(host, port) == host = <<>> \/ port <= 0

SsUserinfo_password_only(method, password) ==
    RStripPadding(B64EncodeWith(B64UrlSafe, Encode(password)))

\* lines 571-572: urlsafe_b64encode(f"{method}:{password}") without padding
SsUserinfo(method, password) ==
    RStripPadding(B64EncodeWith(B64UrlSafe, Encode(method \o <<":">> \o password)))

\* lines 579-600: the vmess object, keys in insertion order
VmessObject(config_name, host, port, client_id, client, network, security, params) ==
    << <<<<"v">>, <<"2">>>>,
       <<<<"p", "s">>, config_name>>,
       <<<<"a", "d", "d">>, host>>,
       <<<<"p", "o", "r", "t">>, Digits(port)>>,
       <<<<"i", "d">>, client_id>>,
       <<<<"a", "i", "d">>, <<"0">>>>,
       <<<<"s", "c", "y">>, OrDefault(GetText(client, "security"), <<"a", "u", "t", "o">>)>>,
       <<<<"n", "e", "t">>, network>>,
       <<<<"t", "y", "p", "e">>, GetParam(params, <<"h", "e", "a", "d", "e", "r", "T", "y", "p", "e">>, <<"n", "o", "n", "e">>)>>,
       <<<<"h", "o", "s", "t">>, GetParam(params, <<"h", "o", "s", "t">>, <<>>)>>,
       <<<<"p", "a", "t", "h">>, GetParam(params, <<"p", "a", "t", "h">>,
                          GetParam(params, <<"s", "e", "r", "v", "i", "c", "e", "N", "a", "m", "e">>, <<>>))>>,
       <<<<"t", "l", "s">>, IF security \in {<<"t", "l", "s">>, <<"r", "e", "a", "l", "i", "t", "y">>}
                           THEN <<"t", "l", "s">> ELSE <<>>>>,
       <<<<"s", "n", "i">>, GetParam(params, <<"s", "n", "i">>, <<>>)>> >>

NoLink == [none |-> TRUE, link |-> <<>>]

Link(text) == [none |-> FALSE, link |-> text]

\* f"{scheme}{userinfo}@{host}:{port}"
Authority(scheme, userinfo, host, port) ==
    scheme \o userinfo \o <<"@">> \o host \o <<":">> \o Digits(port)

\* _build_direct_link_fallback; protocol is str.lower() of the protocol name
\* as the panel may spell it
BuildDirectLinkFallback(inbound, client, config_name, parsed) ==
    IF ~inbound.present THEN NoLink
    ELSE LET protocol == CASE inbound.protocol = "VLESS" -> "vless"
                           [] inbound.protocol = "Trojan" -> "trojan"
                           [] OTHER -> inbound.protocol
             stream   == inbound.streamSettings
             network  == OrDefault(stream.network, <<"t", "c", "p">>)
             security == OrDefault(stream.security, <<"n", "o", "n", "e">>)
             hp       == ExtractHostPort(parsed, inbound, stream)
             fragment == Quote(config_name)
             queried(params) ==
                 ApplySecurityQuery(ApplyStreamQuery(params, stream, network), stream, security)
         IN  IF HostPortMissing(hp.host, hp.port) THEN NoLink
             ELSE IF protocol = "vless"
             THEN LET client_id == GetText(client, "id")
                      params    == SetIfText(<< <<<<"t", "y", "p", "e">>, network>>,
                                                <<<<"s", "e", "c", "u", "r", "i", "t", "y">>, security>>,
                                                <<<<"e", "n", "c", "r", "y", "p", "t", "i", "o", "n">>, <<"n", "o", "n", "e">>>> >>,
                                             <<"f", "l", "o", "w">>, GetText(client, "flow"))
                  IN  IF client_id = <<>> THEN NoLink
                      ELSE Link(Authority(<<"v", "l", "e", "s", "s", ":", "/", "/">>, client_id, hp.host, hp.port)
                                  \o <<"?">> \o UrlEncode(queried(params))
                                  \o <<"#">> \o fragment)
             ELSE IF protocol = "trojan"
             THEN LET password == GetText(client, "password")
                      params   == << <<<<"t", "y", "p", "e">>, network>>,
                                     <<<<"s", "e", "c", "u", "r", "i", "t", "y">>, security>> >>
                  IN  IF password = <<>> THEN NoLink
                      ELSE Link(Authority(<<"t", "r", "o", "j", "a", "n", ":", "/", "/">>, password, hp.host, hp.port)
                                  \o <<"?">> \o UrlEncode(queried(params))
                                  \o <<"#">> \o fragment)
             ELSE IF protocol = "shadowsocks"
             THEN LET password == GetText(client, "password")
                      method   == OrDefault(inbound.settings.method, <<"a", "e", "s", "-", "1", "2", "8", "-", "g", "c", "m">>)
                  IN  IF password = <<>> THEN NoLink
                      ELSE Link(Authority(<<"s", "s", ":", "/", "/">>, SsUserinfo(method, password),
                                          hp.host, hp.port)
                                  \o <<"#">> \o fragment)
             ELSE IF protocol = "vmess"
             THEN LET client_id == GetText(client, "id")
                      vmess     == VmessObject(config_name, hp.host, hp.port, client_id,
                                               client, network, security, queried(<<>>))
                  IN  IF client_id = <<>> THEN NoLink
                      ELSE Link(<<"v", "m", "e", "s", "s", ":", "/", "/">>
                                  \o B64EncodeWith(B64Standard, Encode(JsonDumps(vmess))))
             ELSE NoLink

(***************************************************************************)
(* The inbounds, clients and names the Link Builder is applied to.         *)
(***************************************************************************)
\* streamSettings that is absent or holds nothing
StreamEmpty ==
    [network         |-> <<>>,
     security        |-> <<>>,
     externalProxy   |-> [is_list |-> FALSE, entries |-> <<>>],
     tcpSettings     |-> [headerType |-> <<>>, path |-> <<>>, host |-> <<>>],
     wsSettings      |-> [path |-> <<>>, host |-> <<>>],
     grpcSettings    |-> [serviceName |-> <<>>],
     tlsSettings     |-> [serverName |-> <<>>, alpn |-> <<>>, fingerprint |-> <<>>],
     realitySettings |-> [serverName |-> <<>>, publicKey |-> <<>>, shortId |-> <<>>,
                          spiderX |-> <<>>, fingerprint |-> <<>>]]

\* streamSettings as the panel may hold them: empty; websocket over TLS
\* behind an external proxy cdn.io:8443; gRPC with REALITY; plain TCP spelled
\* in capitals, with an http header
StreamInputs ==
    LET ws_tls ==
          [StreamEmpty EXCEPT
             !.network = <<"w", "s">>,
             !.security = <<"t", "l", "s">>,
             !.externalProxy =
                [is_list |-> TRUE,
                 entries |-> <<ProxyEntry(<<"c", "d", "n", ".", "i", "o">>, RawInt(8443))>>],
             !.wsSettings = [path |-> <<"/", "w">>, host |-> <<"h", ".", "i", "o">>],
             !.tlsSettings = [serverName |-> <<"s", ".", "i", "o">>,
                              alpn |-> <<<<"h", "2">>, <<"h", "3">>>>,
                              fingerprint |-> <<>>]]
        grpc_reality ==
          [StreamEmpty EXCEPT
             !.network = <<"g", "r", "p", "c">>,
             !.security = <<"r", "e", "a", "l", "i", "t", "y">>,
             !.grpcSettings = [serviceName |-> <<"g">>],
             !.realitySettings =
                [serverName |-> <<"r", ".", "i", "o">>, publicKey |-> <<"k">>,
                 shortId |-> <<"1">>, spiderX |-> <<"/">>,
                 fingerprint |-> <<"c", "h", "r", "o", "m", "e">>]]
        tcp_http ==
          [StreamEmpty EXCEPT
             !.network = <<"T", "C", "P">>,
             !.security = <<"n", "o", "n", "e">>,
             !.tcpSettings = [headerType |-> <<"h", "t", "t", "p">>, path |-> <<"/">>,
                              host |-> <<"h", ".", "i", "o">>]]
    IN  {StreamEmpty, ws_tls, grpc_reality, tcp_http}

Inbound(protocol, port, stream, method) ==
    [present |-> TRUE, port |-> port, protocol |-> protocol,
     streamSettings |-> stream, settings |-> [method |-> method]]

\* inbound is None (inbound_by_id has no entry for the staged inbound id),
\* or an inbound with inbound["protocol"] as the panel may report it;
\* clients with and without an id and a password; config names: a generated
\* one, and one with a blank and a slash
InitLinkBuilder ==
    /\ ServiceIdle
    /\ \E inbound \in
            {[present |-> FALSE, port |-> RawNotInt, protocol |-> "",
              streamSettings |-> StreamEmpty, settings |-> [method |-> <<>>]]}
              \cup {Inbound(protocol, port, stream, <<>>) :
                       protocol \in {"vless", "VLESS", "trojan", "shadowsocks", "vmess",
                                     "http", ""},
                       port \in {RawInt(443), RawNotInt},
                       stream \in StreamInputs},
          client \in
            { [id |-> <<"1", "f", "-", "a", "0">>, password |-> <<"p", "w">>, flow |-> <<>>,
               security |-> <<"a", "u", "t", "o">>],
              [id |-> <<"1", "f", "-", "a", "0">>, flow |-> <<"x", "t", "l", "s">>, security |-> <<>>],
              [password |-> <<"1", "f", "a", "0">>],
              [id |-> <<>>, password |-> <<>>] },
          config_name \in {<<"a", "1">>, <<"a", " ", "/", "1">>},
          parsed \in ParsedInputs :
          helperCall = Pending("build_direct_link_fallback",
                               [inbound |-> inbound, client |-> client,
                                config_name |-> config_name, parsed |-> parsed])

ApplyBuildDirectLinkFallback ==
    /\ helperCall.op = "build_direct_link_fallback"
    /\ ~helperCall.out.returned
    /\ LET args == helperCall.args
           got  == BuildDirectLinkFallback(args.inbound, args.client,
                                           args.config_name, args.parsed)
       IN  helperCall' = [helperCall EXCEPT !.out =
                            [returned |-> TRUE, none |-> got.none, link |-> got.link]]
    /\ UNCHANGED serviceVars

SpecLinkBuilder == InitLinkBuilder /\ [][ApplyBuildDirectLinkFallback]_vars

(***************************************************************************)
(* C22.  _build_direct_link_fallback returns None whenever the inbound is  *)
(* missing, the host is empty, the resolved port is not positive, the      *)
(* client's id (vless, vmess) or password (trojan, shadowsocks) is empty,  *)
(* or the protocol is not one of the four; whenever it returns a link,     *)
(* host, port and id or password are all non-empty.                        *)
(***************************************************************************)
C22_Returned == helperCall.op = "build_direct_link_fallback" /\ helperCall.out.returned

C22_Protocol ==
    CASE helperCall.args.inbound.protocol \in {"vless", "VLESS"} -> "vless"
      [] helperCall.args.inbound.protocol = "trojan" -> "trojan"
      [] helperCall.args.inbound.protocol = "shadowsocks" -> "shadowsocks"
      [] helperCall.args.inbound.protocol = "vmess" -> "vmess"
      [] OTHER -> "unsupported"

\* the id or password the protocol needs, empty when the client has none
C22_Credential ==
    LET key == IF C22_Protocol \in {"vless", "vmess"} THEN "id" ELSE "password"
    IN  IF key \in DOMAIN helperCall.args.client THEN helperCall.args.client[key] ELSE <<>>

C22_HostPort ==
    ExtractHostPort(helperCall.args.parsed, helperCall.args.inbound,
                    helperCall.args.inbound.streamSettings)

C22_Unbuildable ==
    \/ ~helperCall.args.inbound.present
    \/ C22_HostPort.host = <<>>
    \/ C22_HostPort.port <= 0
    \/ C22_Protocol = "unsupported"
    \/ C22_Credential = <<>>

C22_NoneWhenUnbuildable ==
    C22_Returned =>
        /\ C22_Unbuildable => (helperCall.out.none /\ helperCall.out.link = <<>>)
        /\ ~helperCall.out.none =>
              /\ helperCall.args.inbound.present
              /\ C22_HostPort.host # <<>>
              /\ C22_HostPort.port > 0
              /\ C22_Credential # <<>>
              /\ C22_Protocol \in SupportedProtocols
              /\ C22_Protocol \in {"vless", "trojan"} =>
                    Contains(helperCall.out.link,
                             <<"@">> \o C22_HostPort.host \o <<":">>
                                \o Digits(C22_HostPort.port) \o <<"?">>)

\* a trojan link was built, and the same call with an unusable declared port
\* and a base URL without a port is among the inputs
C22_Witness ==
    /\ C22_Returned
    /\ ~helperCall.out.none
    /\ C22_Protocol = "trojan"
    /\ helperCall.args.inbound.port = RawNotInt
    /\ helperCall.args.parsed.port = 2053
    /\ Contains(helperCall.out.link, <<"@", "p", ".", "i", "o", ":", "2", "0", "5", "3", "?">>)

(***************************************************************************)
(* A synthesized payload handed to the Link Builder, as the link loop does *)
(* for a staged client (lines 199-204 and 232-239): the client is the      *)
(* payload _build_client_payload returned for the port's protocol, the     *)
(* config name is its email.                                               *)
(***************************************************************************)
\* settings["method"] of a shadowsocks inbound: absent, or a cipher name
InitRoundTrip ==
    /\ ServiceIdle
    /\ \E protocol \in SupportedProtocols, random \in RandomInputs,
          expiry_days \in {0, 30}, stream \in StreamInputs, parsed \in ParsedInputs,
          port \in {RawInt(443), RawNotInt},
          method \in {<<>>, <<"c", "h", "a", "c", "h", "a", "2", "0">>} :
          helperCall = Pending("build_client_payload",
                               [protocol |-> protocol, email |-> <<"a", "1">>,
                                traffic_gb |-> 1, expiry_days |-> expiry_days,
                                now_ms |-> <<0, 0, 7000, 1>>, random |-> random,
                                inbound |-> Inbound(protocol, port, stream, method),
                                parsed |-> parsed])

\* lines 232-239: the fallback is asked for a link for the staged client
LinkLoopFallback ==
    /\ helperCall.op = "build_client_payload"
    /\ helperCall.out.returned
    /\ ~helperCall.out.raised
    /\ "inbound" \in DOMAIN helperCall.args
    /\ helperCall' = Pending("build_direct_link_fallback",
                             [inbound     |-> helperCall.args.inbound,
                              client      |-> helperCall.out.payload,
                              config_name |-> helperCall.args.email,
                              parsed      |-> helperCall.args.parsed])
    /\ UNCHANGED serviceVars

SpecRoundTrip ==
    /\ InitRoundTrip
    /\ [][\/ ApplyBuildClientPayload
        \/ LinkLoopFallback
        \/ ApplyBuildDirectLinkFallback]_vars

(***************************************************************************)
(* C23.  As claimed: for each of the four supported protocols, a payload   *)
(* of _build_client_payload fed into _build_direct_link_fallback with a    *)
(* resolvable host and port yields a URI with the protocol's scheme that   *)
(* contains the payload's id or password verbatim.                         *)
(***************************************************************************)
C23_LinkAsked == helperCall.op = "build_direct_link_fallback" /\ helperCall.out.returned

C23_Resolvable ==
    LET hp == ExtractHostPort(helperCall.args.parsed, helperCall.args.inbound,
                              helperCall.args.inbound.streamSettings)
    IN  hp.host # <<>> /\ hp.port > 0

C23_Protocol == helperCall.args.inbound.protocol

C23_Scheme ==
    CASE C23_Protocol = "vless" -> <<"v", "l", "e", "s", "s", ":", "/", "/">>
      [] C23_Protocol = "trojan" -> <<"t", "r", "o", "j", "a", "n", ":", "/", "/">>
      [] C23_Protocol = "shadowsocks" -> <<"s", "s", ":", "/", "/">>
      [] C23_Protocol = "vmess" -> <<"v", "m", "e", "s", "s", ":", "/", "/">>

\* the payload's id (vless, vmess) or password (trojan, shadowsocks)
C23_Secret ==
    IF C23_Protocol \in {"vless", "vmess"}
    THEN helperCall.args.client.id ELSE helperCall.args.client.password

C23_StartsWith(text, prefix) ==
    Len(text) >= Len(prefix) /\ SubSeq(text, 1, Len(prefix)) = prefix

C23_SecretVerbatimInEveryLink ==
    (C23_LinkAsked /\ C23_Resolvable) =>
        /\ ~helperCall.out.none
        /\ C23_StartsWith(helperCall.out.link, C23_Scheme)
        /\ Contains(helperCall.out.link, C23_Secret)

(***************************************************************************)
(* C23, amended.  The URI has the protocol's scheme; a vless or trojan URI *)
(* carries the id or password verbatim as its user-info; a shadowsocks URI *)
(* carries base64url("method:password") without padding as its user-info,  *)
(* and a vmess URI is vmess:// followed by the base64 of a JSON object     *)
(* whose "id" member is the id: decoding gives the secret back unchanged,  *)
(* the text of the URI itself need not contain it.                         *)
(***************************************************************************)
\* the text between the scheme and the first "@"
C23_Userinfo ==
    LET rest == SubSeq(helperCall.out.link, Len(C23_Scheme) + 1, Len(helperCall.out.link))
        at   == CHOOSE i \in 1..Len(rest) :
                    rest[i] = "@" /\ \A j \in 1..(i - 1) : rest[j] # "@"
    IN  SubSeq(rest, 1, at - 1)

C23_Method ==
    IF helperCall.args.inbound.settings.method = <<>>
    THEN <<"a", "e", "s", "-", "1", "2", "8", "-", "g", "c", "m">>
    ELSE helperCall.args.inbound.settings.method

C23_VmessJson ==
    Decode(B64DecodeWith(B64Standard,
             RStripPadding(SubSeq(helperCall.out.link, Len(C23_Scheme) + 1,
                                  Len(helperCall.out.link)))))

C23_SecretRecoverableFromEveryLink ==
    (C23_LinkAsked /\ C23_Resolvable) =>
        /\ ~helperCall.out.none
        /\ C23_StartsWith(helperCall.out.link, C23_Scheme)
        /\ C23_Secret # <<>>
        /\ C23_Protocol \in {"vless", "trojan"} =>
              C23_StartsWith(helperCall.out.link, C23_Scheme \o C23_Secret \o <<"@">>)
        /\ C23_Protocol = "shadowsocks" =>
              Decode(B64DecodeWith(B64UrlSafe, C23_Userinfo))
                 = C23_Method \o <<":">> \o C23_Secret
        /\ C23_Protocol = "vmess" =>
              Contains(C23_VmessJson,
                       <<"\"", "i", "d", "\"", ":", "\"">> \o C23_Secret \o <<"\"">>)

\* a shadowsocks link was built from a synthesized payload and its text
\* does not contain the password
C23_Witness ==
    /\ C23_LinkAsked
    /\ C23_Resolvable
    /\ C23_Protocol = "shadowsocks"
    /\ ~helperCall.out.none
    /\ ~Contains(helperCall.out.link, C23_Secret)

(***************************************************************************)
(* Name Allocator, one iteration at a time: the loop of _next_unique_name, *)
(* lines 278-296.  Each iteration suspends at the issued_configs query     *)
(* and is resumed by the event loop.  The model stops trying at number     *)
(* MaxCandidates; the code has no such stop.                               *)
(***************************************************************************)
MaxCandidates == 6

LoopCondition_bounded(tried) == tried < 3

\* line 279: while True
LoopCondition(tried) == TRUE

\* lines 284 and 287-293: the candidate is taken already
CandidateCollides(args, number) ==
    LET name == FormatName(args.prefix, number, args.suffix)
    IN  \/ Lower(name) \in args.existing_emails
        \/ Lower(name) \in args.names_in_request
        \/ name \in args.issued_names

\* the panel holds any of the first three names, or every name the loop can
\* reach; issued_configs holds nothing, the fourth name, the first five
\* names, or every name the loop can reach
InitNameLoop ==
    /\ ServiceIdle
    /\ \E prefix \in {<<"a">>, <<"A">>}, start_number \in {0, 1} :
       LET names(n)   == {FormatName(prefix, k, <<>>) : k \in 1..n}
           lowered(n) == {Lower(name) : name \in names(n)}
       IN
       \E existing_emails \in SUBSET lowered(3) \cup {lowered(MaxCandidates)},
          issued_names \in {{}, {FormatName(prefix, 4, <<>>)}, names(5),
                            names(MaxCandidates)},
          names_in_request \in {{}, {Lower(FormatName(prefix, 2, <<>>))}} :
          helperCall = [op   |-> "next_unique_name",
                        args |-> [prefix |-> prefix, suffix |-> <<>>,
                                  start_number |-> start_number,
                                  existing_emails |-> existing_emails,
                                  names_in_request |-> names_in_request,
                                  issued_names |-> issued_names],
                        out  |-> [returned |-> FALSE, raised |-> FALSE,
                                  number |-> start_number, tried |-> 0,
                                  name |-> <<>>,
                                  names_in_request |-> names_in_request]]

\* one iteration of the loop: number += 1, the name is formed and compared,
\* and the loop either goes round again or returns
TryCandidate ==
    /\ helperCall.op = "next_unique_name"
    /\ ~helperCall.out.returned
    /\ helperCall.out.number < MaxCandidates
    /\ LET args   == helperCall.args
           out    == helperCall.out
           number == out.number + 1
           name   == FormatName(args.prefix, number, args.suffix)
       IN  helperCall' = [helperCall EXCEPT !.out =
             IF ~LoopCondition(out.tried)
             THEN [out EXCEPT !.returned = TRUE, !.raised = TRUE]
             ELSE IF CandidateCollides(args, number)
             THEN [out EXCEPT !.number = number, !.tried = @ + 1]
             ELSE [returned         |-> TRUE,
                   raised           |-> FALSE,
                   number           |-> number,
                   tried            |-> out.tried + 1,
                   name             |-> name,
                   names_in_request |-> out.names_in_request \cup {Lower(name)}]]
    /\ UNCHANGED serviceVars

\* the event loop resumes a coroutine whose query has answered
SpecNameLoopFair == InitNameLoop /\ [][TryCandidate]_vars /\ WF_vars(TryCandidate)

(***************************************************************************)
(* C28.  _next_unique_name returns whenever some candidate does not        *)
(* collide (which is so whenever the colliding names are finitely many),   *)
(* with the first such candidate; while every candidate collides it        *)
(* neither returns nor raises, however many candidates it has tried.       *)
(***************************************************************************)
C28_Running == helperCall.op = "next_unique_name"

C28_Candidates == (helperCall.args.start_number + 1)..MaxCandidates

C28_SomeCandidateFree ==
    \E number \in C28_Candidates : ~CandidateCollides(helperCall.args, number)

C28_Expected ==
    NextUniqueName(helperCall.args.issued_names, helperCall.args.prefix,
                   helperCall.args.suffix, helperCall.args.start_number,
                   helperCall.args.existing_emails, helperCall.args.names_in_request)

C28_TerminatesExactlyWhenACandidateIsFree ==
    /\ (C28_Running /\ C28_SomeCandidateFree) ~> helperCall.out.returned
    /\ [](C28_Running => ~helperCall.out.raised)
    /\ []((C28_Running /\ ~C28_SomeCandidateFree) => ~helperCall.out.returned)
    /\ []((C28_Running /\ helperCall.out.returned) =>
             /\ helperCall.out.number = C28_Expected.number
             /\ helperCall.out.name = C28_Expected.name
             /\ helperCall.out.tried
                   = helperCall.out.number - helperCall.args.start_number
             /\ \A number \in (helperCall.args.start_number + 1)..(helperCall.out.number - 1) :
                   CandidateCollides(helperCall.args, number))

\* the loop returned the sixth name after passing over five taken ones
C28_Witness ==
    /\ C28_Running
    /\ helperCall.out.returned
    /\ helperCall.args.start_number = 0
    /\ helperCall.out.number = MaxCandidates
    /\ helperCall.out.tried = MaxCandidates

\* every candidate collided: the loop has tried them all and is still
\* running, having neither returned nor raised
C28_StillRunning ==
    /\ C28_Running
    /\ ~C28_SomeCandidateFree
    /\ helperCall.out.tried = MaxCandidates - helperCall.args.start_number
    /\ ~helperCall.out.returned
    /\ ~helperCall.out.raised

(***************************************************************************)
(* Calls of allocate_and_create under the event loop's scheduling: a       *)
(* coroutine whose awaited operation has completed is resumed, and a       *)
(* caller queued on an asyncio.Lock is woken when the lock is released.    *)
(* The stored rows do not change meanwhile.                                *)
(***************************************************************************)
\* the continuation of call c after a suspension, staging apart
Resume(c) ==
    \/ Acquire(c)
    \/ GetProfile(c)
    \/ GetPanel(c)
    \/ ListPorts(c)
    \/ ListInbounds(c)
    \/ Begin(c)
    \/ BeginTimeout(c)
    \/ AddClients(c)
    \/ GetSettings(c)
    \/ Rollback(c)
    \/ XuiClose(c)

\* Stage(c) is enabled exactly while pc[c] = "stage" and every Stage(c) step
\* leaves that position, so weak fairness of Stage(c) is []<>(pc[c] # "stage")
SpecCallsFair ==
    /\ Init
    /\ [][\E c \in Calls :
             \/ \E profile_id \in {1, 2}, quantity \in QuantityInputs :
                   Call(c, profile_id, quantity)
             \/ Resume(c)
             \/ Stage(c)]_vars
    /\ \A c \in Calls : WF_vars(Resume(c)) /\ []<>(pc[c] # "stage")

(***************************************************************************)
(* C33.  A call of allocate_and_create that has ended, by whichever        *)
(* exception at whichever step, no longer holds its profile's lock, and a  *)
(* call queued on a profile's lock eventually takes the lock and runs      *)
(* _allocate_locked, and every call that has started eventually ends.      *)
(***************************************************************************)
C33_Ended(c) == pc[c] = "done"

C33_Holds(c) == \E l \in Calls : lockOwner[l] = c

C33_LockAlwaysReleased ==
    /\ [](\A c \in Calls : C33_Ended(c) => ~C33_Holds(c))
    /\ \A c \in Calls : (pc[c] = "wait_lock") ~> InAllocateLocked(c)
    /\ \A c \in Calls : (pc[c] # "idle") ~> C33_Ended(c)

\* a call failed after the panel accepted its batch, and the next call on the
\* same profile holds the lock and is running
C33_Witness ==
    \E c1, c2 \in Calls :
        /\ c1 # c2
        /\ arg[c1].profile_id = 1
        /\ arg[c2].profile_id = 1
        /\ C33_Ended(c1)
        /\ result[c1].kind = "AttributeError"
        /\ Before(c1, c2)
        /\ lockOwner[arg[c2].lock] = c2
        /\ pc[c2] = "list_inbounds"

(***************************************************************************)
(* C34.  As claimed: whenever the panel accepts an add_clients call, none  *)
(* of the submitted names is the name of a client the panel holds at that  *)
(* moment (names compared as line 284 compares them, in lowercase).        *)
(***************************************************************************)
\* the names call c hands over in this step
C34_SubmittedNow(c) ==
    IF Len(submitted'[c]) > Len(submitted[c])
    THEN SeqRange(submitted'[c][Len(submitted'[c])].emails)
    ELSE {}

C34_Step(c) ==
    \A name \in C34_SubmittedNow(c) : Lower(name) \notin ExtractExistingEmails(remote)

C34_NoSubmittedNameIsOnThePanel == [][\A c \in Calls : C34_Step(c)]_vars

(***************************************************************************)
(* C35.  As claimed: the port runtimes _build_port_runtime returns for one *)
(* profile refer to pairwise distinct inbounds of the panel, and the batch *)
(* staged against them puts on no inbound more clients than the room       *)
(* max(0, max_active_clients - active_clients) of each port bound to it.   *)
(***************************************************************************)
\* the clients the staging loop of lines 182-214 puts on one inbound
C35_StagedOn(c, inbound_id) ==
    LET ctx == [issued_names    |-> {},
                prefix          |-> loc[c].profile.prefix,
                suffix          |-> loc[c].profile.suffix,
                existing_emails |-> loc[c].existing_emails,
                port_runtimes   |-> loc[c].port_runtimes]
    IN  Len(ClientsFor(StageBatch(arg[c].quantity, ctx, 0).staged, inbound_id))

C35_RuntimesReferToDistinctInbounds ==
    \A c \in Calls :
        LET runtimes == loc[c].port_runtimes
        IN  /\ \A i, j \in 1..Len(runtimes) :
                 i # j => runtimes[i].inbound_id # runtimes[j].inbound_id
            /\ \A i \in 1..Len(runtimes) :
                 C35_StagedOn(c, runtimes[i].inbound_id)
                   <= Max0(runtimes[i].max_active_clients - runtimes[i].active_clients)

(***************************************************************************)
(* get_capacity_report, lines 71-113, for a profile and a panel that       *)
(* exist: the ports are resolved against the inbound list and summed up.   *)
(***************************************************************************)
\* the profile's rows and the panel's inbound list: port i of the profile is
\* inbound i, which holds as many enabled clients as the input says
InitCapacityReport ==
    /\ ServiceIdle
    /\ \E input \in PortRuntimeInputs :
          helperCall = Pending("get_capacity_report",
                               [ports    |-> [i \in 1..Len(input) |->
                                                PortRow(i, 10 + i, input[i][1])],
                                inbounds |-> [i \in 1..Len(input) |->
                                                [port        |-> 10 + i,
                                                 protocol    |-> "vless",
                                                 clientStats |->
                                                    [k \in 1..input[i][2] |->
                                                       Stat(<<"u">> \o Digits(k), "true")]]]])

\* lines 94-113
GetCapacityReport ==
    /\ helperCall.op = "get_capacity_report"
    /\ ~helperCall.out.returned
    /\ LET port_runtimes  == BuildPortRuntime(helperCall.args.ports,
                                              helperCall.args.inbounds).runtimes
           total_capacity == SumSeq([i \in 1..Len(port_runtimes) |->
                                       port_runtimes[i].max_active_clients])
           used           == SumSeq([i \in 1..Len(port_runtimes) |->
                                       port_runtimes[i].active_clients])
       IN  helperCall' = [helperCall EXCEPT !.out =
             [returned       |-> TRUE,
              total_capacity |-> total_capacity,
              used           |-> used,
              free           |-> total_capacity - used,
              ports          |-> [i \in 1..Len(port_runtimes) |->
                                    [port       |-> port_runtimes[i].port,
                                     inbound_id |-> port_runtimes[i].inbound_id,
                                     used       |-> port_runtimes[i].active_clients,
                                     max        |-> port_runtimes[i].max_active_clients,
                                     free       |-> Max0(port_runtimes[i].max_active_clients
                                                           - port_runtimes[i].active_clients)]]]]
    /\ UNCHANGED serviceVars

SpecCapacityReport == InitCapacityReport /\ [][GetCapacityReport]_vars

(***************************************************************************)
(* C36.  As claimed: in every result of get_capacity_report the aggregate  *)
(* "free" is the sum of the per-port "free" values, is not negative, and   *)
(* is the total_free that line 154 of _allocate_locked computes from the   *)
(* same rows and the same inbound list.                                    *)
(***************************************************************************)
C36_Reported == helperCall.op = "get_capacity_report" /\ helperCall.out.returned

C36_AggregateFreeIsTheSumOfPortFree ==
    C36_Reported =>
        LET out == helperCall.out
        IN  /\ out.free = SumSeq([i \in 1..Len(out.ports) |-> out.ports[i].free])
            /\ out.free >= 0
            /\ out.free = TotalFree(BuildPortRuntime(helperCall.args.ports,
                                                     helperCall.args.inbounds).runtimes)

(***************************************************************************)
(* Database.transaction, db.py lines 115-128, around a body that writes    *)
(* profile_counters rows.  The statements of the body are held back on the *)
(* connection until COMMIT; dbWriter is the write lock of the file.        *)
(***************************************************************************)
\* what one transaction leaves alone
txFrame ==
    <<profilesTbl, panelsTbl, portsTbl, issuedTbl, remote, lockVars, pc, arg, loc,
      result, trace, entered, submitted, toggles>>

\* begin: BEGIN IMMEDIATE is granted, or another process holds the write lock.
\* The body runs its statements and completes, or raises after the first
\* raise_after of them: an Exception, or the CancelledError of a cancelled
\* task, which is a BaseException.  commit: COMMIT succeeds or is refused.
InitTransaction ==
    /\ ServiceIdle
    /\ \E begin \in {"ok", "locked"}, commit \in {"ok", "refused"},
          statements \in {<<>>, <<[profile_id |-> 2, last_number |-> 0]>>,
                          <<[profile_id |-> 1, last_number |-> 10]>>,
                          <<[profile_id |-> 2, last_number |-> 0],
                            [profile_id |-> 1, last_number |-> 10]>>},
          body \in {"completes", "Exception", "CancelledError"} :
       \E raise_after \in 0..Len(statements) :
          helperCall = [op   |-> "transaction",
                        args |-> [begin |-> begin, commit |-> commit,
                                  statements |-> statements, body |-> body,
                                  raise_after |-> IF body = "completes"
                                                  THEN Len(statements) ELSE raise_after],
                        out  |-> [returned |-> FALSE, at |-> "begin", conn_open |-> FALSE,
                                  tx |-> <<>>, executed |-> 0, body_ended |-> "",
                                  commit_called |-> FALSE, rollback_called |-> FALSE,
                                  raised |-> ""]]

\* lines 117-121: connect, PRAGMA foreign_keys, BEGIN IMMEDIATE
TxBegin ==
    /\ helperCall.op = "transaction"
    /\ helperCall.out.at = "begin"
    /\ IF helperCall.args.begin = "ok"
       THEN /\ dbWriter' = 1
            /\ helperCall' = [helperCall EXCEPT !.out.at = "body", !.out.conn_open = TRUE]
       ELSE /\ dbWriter' = dbWriter
            /\ helperCall' = [helperCall EXCEPT !.out.at = "rollback",
                                                !.out.conn_open = TRUE,
                                                !.out.raised = "OperationalError"]
    /\ UNCHANGED <<countersTbl, txFrame>>

\* line 122, the body of the with-block: its next statement, or its end
TxBody ==
    /\ helperCall.op = "transaction"
    /\ helperCall.out.at = "body"
    /\ LET args == helperCall.args
           out  == helperCall.out
       IN  IF out.executed < args.raise_after
           THEN helperCall' = [helperCall EXCEPT
                                 !.out.executed = @ + 1,
                                 !.out.tx = Append(@, args.statements[out.executed + 1])]
           ELSE helperCall' = [helperCall EXCEPT
                                 !.out.body_ended = args.body,
                                 !.out.raised = IF args.body = "completes" THEN "" ELSE args.body,
                                 !.out.at = CASE args.body = "completes" -> "commit"
                                              [] args.body = "Exception" -> "rollback"
                                              [] OTHER -> "close"]
    /\ UNCHANGED <<countersTbl, dbWriter, txFrame>>

\* line 123: COMMIT writes the held statements; a refused COMMIT leaves the
\* transaction open and raises into the except clause
TxCommit ==
    /\ helperCall.op = "transaction"
    /\ helperCall.out.at = "commit"
    /\ LET tx == helperCall.out.tx
           written == {tx[k].profile_id : k \in 1..Len(tx)}
       IN  IF helperCall.args.commit = "ok"
           THEN /\ countersTbl' =
                      [p \in DOMAIN countersTbl \cup written |->
                          IF p \in written
                          THEN LET last == CHOOSE k \in 1..Len(tx) :
                                              /\ tx[k].profile_id = p
                                              /\ \A j \in (k + 1)..Len(tx) : tx[j].profile_id # p
                               IN  tx[last].last_number
                          ELSE countersTbl[p]]
                /\ dbWriter' = 0
                /\ helperCall' = [helperCall EXCEPT !.out.commit_called = TRUE,
                                                    !.out.tx = <<>>,
                                                    !.out.at = "close"]
           ELSE /\ helperCall' = [helperCall EXCEPT !.out.commit_called = TRUE,
                                                    !.out.raised = "OperationalError",
                                                    !.out.at = "rollback"]
                /\ UNCHANGED <<countersTbl, dbWriter>>
    /\ UNCHANGED txFrame

TxRollback_commits ==
    /\ helperCall.op = "transaction"
    /\ helperCall.out.at = "rollback"
    /\ helperCall' = [helperCall EXCEPT !.out.rollback_called = TRUE,
                                        !.out.tx = <<>>,
                                        !.out.at = "close"]
    /\ countersTbl' = [p \in DOMAIN countersTbl \cup
                               {helperCall.out.tx[k].profile_id : k \in 1..Len(helperCall.out.tx)} |->
                          IF p \in DOMAIN countersTbl THEN countersTbl[p] ELSE 0]
    /\ dbWriter' = 0
    /\ UNCHANGED txFrame

\* lines 124-126, except Exception: ROLLBACK drops the held statements, and
\* the exception is raised again
TxRollback ==
    /\ helperCall.op = "transaction"
    /\ helperCall.out.at = "rollback"
    /\ helperCall' = [helperCall EXCEPT !.out.rollback_called = TRUE,
                                        !.out.tx = <<>>,
                                        !.out.at = "close"]
    /\ dbWriter' = 0
    /\ UNCHANGED <<countersTbl, txFrame>>

\* lines 127-128, finally: close, which ends a transaction that is still
\* open without writing it
TxClose ==
    /\ helperCall.op = "transaction"
    /\ helperCall.out.at = "close"
    /\ helperCall' = [helperCall EXCEPT !.out.conn_open = FALSE,
                                        !.out.tx = <<>>,
                                        !.out.at = "done",
                                        !.out.returned = TRUE]
    /\ dbWriter' = 0
    /\ UNCHANGED <<countersTbl, txFrame>>

SpecTransaction ==
    /\ InitTransaction
    /\ [][TxBegin \/ TxBody \/ TxCommit \/ TxRollback \/ TxClose]_vars

(***************************************************************************)
(* C37.  COMMIT is issued exactly when the body of Database.transaction    *)
(* completed without an exception, and nothing the body wrote is in the    *)
(* table unless it did; when the body raises, its writes are gone and the  *)
(* same exception leaves the with-block; in every case the connection is   *)
(* closed at the end and the write lock is free.                           *)
(***************************************************************************)
C37_Ended == helperCall.op = "transaction" /\ helperCall.out.at = "done"

C37_BodyRaised == helperCall.out.body_ended \in {"Exception", "CancelledError"}

C37_Untouched == countersTbl = [p \in {1, 3, 4} |-> 0]

C37_CommitsExactlyWhenTheBodyCompletes ==
    /\ helperCall.op = "transaction" =>
          /\ helperCall.out.commit_called => helperCall.out.body_ended = "completes"
          /\ ~C37_Untouched =>
                helperCall.out.body_ended = "completes" /\ helperCall.args.commit = "ok"
          /\ dbWriter # 0 => helperCall.out.conn_open
    /\ C37_Ended =>
          /\ helperCall.out.body_ended = "completes" => helperCall.out.commit_called
          /\ (helperCall.out.body_ended = "completes" /\ helperCall.args.commit = "ok") =>
                /\ helperCall.out.raised = ""
                /\ \A k \in 1..Len(helperCall.args.statements) :
                      LET w == helperCall.args.statements[k]
                      IN  /\ w.profile_id \in DOMAIN countersTbl
                          /\ countersTbl[w.profile_id] = w.last_number
          /\ C37_BodyRaised =>
                /\ C37_Untouched
                /\ helperCall.out.raised = helperCall.out.body_ended
          /\ helperCall.out.raised # "" => C37_Untouched
          /\ ~helperCall.out.conn_open
          /\ dbWriter = 0
          /\ helperCall.out.tx = <<>>

\* a body that had written two rows was cancelled, and the transaction ended
C37_Witness ==
    /\ C37_Ended
    /\ helperCall.out.body_ended = "CancelledError"
    /\ helperCall.out.executed = 2
    /\ ~helperCall.out.rollback_called

(***************************************************************************)
(* XUIClient._request_panel_json (xui_client.py lines 196-224) with        *)
(* _ensure_login and _login (lines 177-194): one call against a panel      *)
(* whose answers are scripted.  responses[k] is the answer to the k-th     *)
(* request of the call and logins[k] the answer to its k-th POST /login;   *)
(* the last entry of a script repeats.                                     *)
(***************************************************************************)
MaxRequests == 3

\* lines 207 and 216-218 with every answer treated as the first one
RetriesRequest_always(response, retry) ==
    \/ response.status \in {401, 404}
    \/ /\ response.status \in {200, 201}
       /\ response.json
       /\ response.success = "false"
       /\ Contains(LowerText(OrDefault(response.msg,
              <<"P", "a", "n", "e", "l", " ", "A", "P", "I", " ", "r", "e", "j", "e",
                "c", "t", "e", "d", " ", "r", "e", "q", "u", "e", "s", "t">>)),
              <<"l", "o", "g", "i", "n">>)

\* lines 207 and 216-218: the answer sends the call back through the login.
\* The message test of line 218 is only reached past lines 212 and 215, with a
\* status of 200 or 201 and a JSON object whose "success" is False.
RetriesRequest(response, retry) ==
    \/ response.status \in {401, 404} /\ retry
    \/ /\ response.status \in {200, 201}
       /\ response.json
       /\ response.success = "false"
       /\ retry
       /\ Contains(LowerText(OrDefault(response.msg,
              <<"P", "a", "n", "e", "l", " ", "A", "P", "I", " ", "r", "e", "j", "e",
                "c", "t", "e", "d", " ", "r", "e", "q", "u", "e", "s", "t">>)),
              <<"l", "o", "g", "i", "n">>)

\* a client that has or has not logged in before (_logged_in, line 44), called
\* with retry at its default (line 202)
InitRequest ==
    /\ ServiceIdle
    /\ \E logged_in \in BOOLEAN,
          logins \in [1..2 -> {[status |-> 200, success |-> TRUE],
                               [status |-> 200, success |-> FALSE],
                               [status |-> 500, success |-> TRUE]}],
          responses \in [1..2 ->
              [status : {200, 201, 401, 404, 500}, json : {TRUE}, success : {"true", "absent"},
               msg : {<<>>}]
              \cup [status : {200, 201, 401, 404, 500}, json : {FALSE}, success : {"absent"},
                    msg : {<<>>}]
              \cup [status : {200, 201, 401, 404, 500}, json : {TRUE}, success : {"false"},
                    msg : {<<>>,
                           <<"P", "l", "e", "a", "s", "e", " ", "L", "o", "g", "i", "n">>,
                           <<"n", "o", " ", "i", "n", "b", "o", "u", "n", "d">>}]] :
          helperCall = [op   |-> "_request_panel_json",
                        args |-> [logins |-> logins, responses |-> responses],
                        out  |-> [at |-> "ensure_login", logged_in |-> logged_in,
                                  retry |-> TRUE, sent |-> 0, logins |-> 0, relogins |-> 0,
                                  raised |-> "", returned |-> FALSE]]

\* lines 177-194, _ensure_login as awaited on lines 204, 209 and 220: nothing
\* when the client is logged in, else POST /login, which raises XUIError on a
\* status other than 200 or an answer without a true "success"
EnsureLogin ==
    /\ helperCall.op = "_request_panel_json"
    /\ helperCall.out.at = "ensure_login"
    /\ LET out == helperCall.out
           answer == helperCall.args.logins[IF out.logins = 0 THEN 1 ELSE 2]
           counted == [out EXCEPT !.logins = @ + 1,
                                  !.relogins = IF out.retry THEN @ ELSE @ + 1]
       IN  helperCall' =
               [helperCall EXCEPT !.out =
                   IF out.logged_in
                   THEN [out EXCEPT !.at = "request"]
                   ELSE IF answer.status # 200 \/ ~answer.success
                        THEN [counted EXCEPT !.at = "done", !.raised = "XUIError"]
                        ELSE [counted EXCEPT !.at = "request", !.logged_in = TRUE]]
    /\ UNCHANGED serviceVars

\* lines 205-224: the request and what its answer leads to.  The retry of
\* lines 210 and 221 is the same method entered with retry=False, so it goes
\* through _ensure_login (line 204) again.
RequestPanelJson ==
    /\ helperCall.op = "_request_panel_json"
    /\ helperCall.out.at = "request"
    /\ helperCall.out.sent < MaxRequests
    /\ LET out == helperCall.out
           response == helperCall.args.responses[IF out.sent = 0 THEN 1 ELSE 2]
           sent == [out EXCEPT !.sent = @ + 1]
       IN  helperCall' =
               [helperCall EXCEPT !.out =
                   IF RetriesRequest(response, out.retry)
                   THEN [sent EXCEPT !.at = "ensure_login", !.logged_in = FALSE,
                                     !.retry = FALSE]
                   ELSE IF \/ response.status \notin {200, 201}
                           \/ ~response.json
                           \/ response.success = "false"
                        THEN [sent EXCEPT !.at = "done", !.raised = "XUIError"]
                        ELSE [sent EXCEPT !.at = "done", !.returned = TRUE]]
    /\ UNCHANGED serviceVars

SpecRequest ==
    /\ InitRequest
    /\ [][EnsureLogin \/ RequestPanelJson]_vars

\* the call has ended, by a return or by an exception
C31_Ended == helperCall.op = "_request_panel_json" /\ helperCall.out.at = "done"

\* the answer of a stale session: 401, 404, or success=false with a message
\* that mentions login
C31_Stale(response) ==
    \/ response.status \in {401, 404}
    \/ /\ response.status \in {200, 201}
       /\ response.json
       /\ response.success = "false"
       /\ \E i \in 1..(Len(response.msg) - 4) :
             LowerText(SubSeq(response.msg, i, i + 4)) = <<"l", "o", "g", "i", "n">>

\* an answer that is not a success: another status, no JSON object, or
\* success=false
C31_Failure(response) ==
    \/ response.status \notin {200, 201}
    \/ ~response.json
    \/ response.success = "false"

\* C31 as the code has it: the request is sent at most twice per call.  When
\* the first answer is that of a stale session the client logs in again exactly
\* once, and the request is sent a second time exactly when that login
\* succeeds; when it fails the call raises XUIError after one request.  An
\* answer to the second request that is not a success raises XUIError, and a
\* first answer that is not a success and not that of a stale session raises
\* XUIError with no second login and no second request.
C31_RetriesOnceAfterASuccessfulRelogin ==
    /\ helperCall.op = "_request_panel_json" => helperCall.out.sent <= 2
    /\ C31_Ended /\ helperCall.out.sent >= 1 =>
          LET out == helperCall.out
              first == helperCall.args.responses[1]
              second == helperCall.args.responses[2]
          IN  /\ C31_Stale(first) =>
                    /\ out.relogins = 1
                    /\ out.logged_in => out.sent = 2
                    /\ ~out.logged_in => out.sent = 1 /\ out.raised = "XUIError"
              /\ ~C31_Stale(first) =>
                    /\ out.sent = 1 /\ out.relogins = 0
                    /\ C31_Failure(first) => out.raised = "XUIError" /\ ~out.returned
                    /\ ~C31_Failure(first) => out.returned /\ out.raised = ""
              /\ out.sent = 2 =>
                    /\ C31_Failure(second) => out.raised = "XUIError" /\ ~out.returned
                    /\ ~C31_Failure(second) => out.returned /\ out.raised = ""

\* a call whose first answer was that of a stale session, which logged in again,
\* sent the request a second time and raised XUIError on a second stale answer
C31_Witness ==
    /\ C31_Ended
    /\ C31_Stale(helperCall.args.responses[1])
    /\ C31_Stale(helperCall.args.responses[2])
    /\ helperCall.out.sent = 2
    /\ helperCall.out.relogins = 1
    /\ helperCall.out.raised = "XUIError"

\* C31 as stated: every request answered by a stale session is sent exactly
\* once more, so the call ends with two requests sent.
C31_StaleAnswerIsRetriedExactlyOnce ==
    C31_Ended /\ helperCall.out.sent >= 1 /\ C31_Stale(helperCall.args.responses[1]) =>
        helperCall.out.sent = 2 /\ helperCall.out.relogins = 1

(***************************************************************************)
(* The bot's handlers (bot/handlers_admin.py, bot/handlers_user.py), each   *)
(* applied as written to one update that reached it.  A message arrives    *)
(* split into its fields; a field read with int() is a raw value.  The     *)
(* stored state is the tables, with profiles rows that carry their name,   *)
(* and in helperCall.out the allowed_users table, the FSM storage          *)
(* (chat -> state and selected_profile_id, 0 for None) and the update      *)
(* handled last with what its handler answered and, when it called         *)
(* allocate_and_create, the arguments of that call.                        *)
(*                                                                         *)
(* Two things are not in the tables.  SCHEMA_SQL (db.py lines 11-78)       *)
(* creates no user_profile_access table, so get_profile_access             *)
(* (allowlist.py lines 59-64) raises sqlite3.OperationalError and no       *)
(* profile-access set is ever stored.  PanelRepository (panels.py) has no  *)
(* delete method, so line 866 of confirm_delete_panel raises               *)
(* AttributeError.  What allocate_and_create does once called is the       *)
(* subject of Spec.                                                        *)
(***************************************************************************)
admin_chat_id == 1

\* is_admin, which guard_admin and guard_admin_callback answer by
GuardAdmin_open(chat_id) == TRUE

GuardAdmin(chat_id) == chat_id = admin_chat_id

\* lines 480, 579 and 681 with the bound included
MaxCountAccepted_zero(max_count) == max_count >= 0

\* lines 480, 579 and 681: max_count <= 0 is refused
MaxCountAccepted(max_count) == max_count > 0

\* a database as init() leaves it, with one panel added and no customer; the
\* panel lists inbound 2 on the port of inbound 1
InitBot ==
    /\ profilesTbl = <<>>
    /\ panelsTbl = [q \in {1} |-> [active |-> TRUE]]
    /\ portsTbl = <<>>
    /\ countersTbl = <<>>
    /\ issuedTbl = {}
    /\ remote = [RemoteInit(<<>>, <<>>) EXCEPT ![2].port = 11]
    /\ dbWriter = 0
    /\ profile_locks = [p \in {} |-> 0]
    /\ lockOwner = [l \in Calls |-> 0]
    /\ lockWaiters = [l \in Calls |-> <<>>]
    /\ pc = [c \in Calls |-> "idle"]
    /\ arg = [c \in Calls |-> [profile_id |-> 0, quantity |-> 0, lock |-> 0]]
    /\ loc = [c \in Calls |-> NoLocals]
    /\ result = [c \in Calls |-> NoResult]
    /\ trace = [c \in Calls |-> <<>>]
    /\ entered = <<>>
    /\ submitted = [c \in Calls |-> <<>>]
    /\ toggles = 0
    /\ helperCall =
         [op   |-> "bot",
          args |-> <<>>,
          out  |-> [allowed_users |-> {},
                    fsm    |-> [chat \in {1, 2} |-> [state |-> "", selected_profile_id |-> 0]],
                    update |-> [router |-> "", handler |-> "", chat_id |-> 0,
                                answer |-> "", invoked |-> <<>>]]]

\* the handlers that only open a dialog or a menu (lines 84-154, 190-199,
\* 396-414, 540-553, 646-659, 705-717): past the guard, state.clear() for a
\* menu and state.set_state() for a dialog
AskAdmin(chat_id, button) ==
    /\ helperCall.op = "bot"
    /\ helperCall' =
         [helperCall EXCEPT
            !.out.update = [router |-> "admin", handler |-> "ask", chat_id |-> chat_id,
                            answer |-> IF GuardAdmin(chat_id) THEN button ELSE "admin only",
                            invoked |-> <<>>],
            !.out.fsm[chat_id] =
                IF ~GuardAdmin(chat_id) THEN @
                ELSE IF button = "menu" THEN [state |-> "", selected_profile_id |-> 0]
                ELSE [@ EXCEPT !.state = button]]
    /\ UNCHANGED serviceVars

\* add_user (lines 156-188): chat_raw is the text before "|", read with int()
AddUser(chat_id, back, chat_raw) ==
    /\ helperCall.op = "bot"
    /\ helperCall.out.fsm[chat_id].state = "add_user"
    /\ LET answer == IF ~GuardAdmin(chat_id) THEN "admin only"
                     ELSE IF back THEN "menu"
                     ELSE IF ~chat_raw.converts THEN "chat_id is not a number"
                     ELSE "added"
       IN  helperCall' =
             [helperCall EXCEPT
                !.out.update = [router |-> "admin", handler |-> "add_user",
                                chat_id |-> chat_id, answer |-> answer, invoked |-> <<>>],
                !.out.allowed_users = IF answer = "added" THEN @ \cup {chat_raw.value} ELSE @,
                !.out.fsm[chat_id] = IF answer \in {"menu", "added"}
                                     THEN [state |-> "", selected_profile_id |-> 0] ELSE @]
    /\ UNCHANGED serviceVars

\* remove_user (lines 201-220)
RemoveUser(chat_id, back, chat_raw) ==
    /\ helperCall.op = "bot"
    /\ helperCall.out.fsm[chat_id].state = "remove_user"
    /\ LET answer == IF ~GuardAdmin(chat_id) THEN "admin only"
                     ELSE IF back THEN "menu"
                     ELSE IF ~chat_raw.converts THEN "chat_id is not a number"
                     ELSE IF chat_raw.value = admin_chat_id THEN "the admin stays"
                     ELSE "removed"
       IN  helperCall' =
             [helperCall EXCEPT
                !.out.update = [router |-> "admin", handler |-> "remove_user",
                                chat_id |-> chat_id, answer |-> answer, invoked |-> <<>>],
                !.out.allowed_users = IF answer = "removed" THEN @ \ {chat_raw.value} ELSE @,
                !.out.fsm[chat_id] = IF answer \in {"menu", "removed"}
                                     THEN [state |-> "", selected_profile_id |-> 0] ELSE @]
    /\ UNCHANGED serviceVars

\* create_profile (lines 416-538) with ProfileRepository.create (profiles.py
\* lines 13-51).  The message has its 6 or 7 parts, with name, panel_name and
\* prefix present and gb and days not negative; panels are named by their id.
\* entries are the port:max pairs, xui_ok is whether list_inbounds answered.
\* The INSERT of line 26 raises IntegrityError on a name or a prefix that
\* exists (both UNIQUE, db.py lines 33-34) and the transaction rolls back.
CreateProfile(chat_id, back, name, panel_name, prefix, entries, xui_ok) ==
    /\ helperCall.op = "bot"
    /\ helperCall.out.fsm[chat_id].state = "create_profile"
    /\ LET refused(i) ==
               \/ ~entries[i].port.converts
               \/ ~entries[i].max.converts
               \/ \E j \in 1..(i - 1) : entries[j].port.value = entries[i].port.value
               \/ ~MaxCountAccepted(entries[i].max.value)
           matches(i) == {b \in DOMAIN remote : remote[b].port = entries[i].port.value}
           profile_id == Len(profilesTbl) + 1
           answer ==
               IF ~GuardAdmin(chat_id) THEN "admin only"
               ELSE IF back THEN "menu"
               ELSE IF panel_name \notin DOMAIN panelsTbl THEN "panel not found"
               ELSE IF entries = <<>> THEN "a port is needed"
               ELSE IF \E i \in 1..Len(entries) : refused(i) THEN "port entry refused"
               ELSE IF ~xui_ok THEN "XUIError"
               ELSE IF \E i \in 1..Len(entries) : Cardinality(matches(i)) # 1
                    THEN "port not on the panel or on several inbounds"
               ELSE IF \E p \in DOMAIN profilesTbl :
                          profilesTbl[p].name = name \/ profilesTbl[p].prefix = prefix
                    THEN "IntegrityError"
               ELSE "created"
       IN  /\ helperCall' =
                [helperCall EXCEPT
                   !.out.update = [router |-> "admin", handler |-> "create_profile",
                                   chat_id |-> chat_id, answer |-> answer,
                                   invoked |-> <<>>],
                   !.out.fsm[chat_id] = IF answer \in {"menu", "created"}
                                        THEN [state |-> "", selected_profile_id |-> 0]
                                        ELSE @]
           /\ IF answer = "created"
              THEN /\ profilesTbl' =
                        Append(profilesTbl,
                               [id |-> profile_id, name |-> name, panel_id |-> panel_name,
                                prefix |-> prefix, suffix |-> <<>>, active |-> TRUE])
                   /\ portsTbl' =
                        Append(portsTbl,
                               [i \in 1..Len(entries) |->
                                   PortRow(CHOOSE b \in matches(i) : TRUE,
                                           entries[i].port.value, entries[i].max.value)])
                   /\ countersTbl' = Append(countersTbl, 0)
              ELSE UNCHANGED <<profilesTbl, portsTbl, countersTbl>>
    /\ UNCHANGED <<panelsTbl, issuedTbl, remote, dbWriter, lockVars, pc, arg, loc,
                   result, trace, entered, submitted, toggles>>

\* add_profile_port (lines 555-644) with ProfileRepository.add_port
\* (profiles.py lines 88-109), which appends the row after the profile's
\* last sort_order.  UNIQUE(profile_id, port) (db.py line 51) has nothing left
\* to refuse once line 589 has passed.
AddProfilePort(chat_id, back, profile_name, port_raw, max_raw, xui_ok) ==
    /\ helperCall.op = "bot"
    /\ helperCall.out.fsm[chat_id].state = "add_profile_port"
    /\ LET found   == {p \in DOMAIN profilesTbl : profilesTbl[p].name = profile_name}
           profile == CHOOSE p \in found : TRUE
           matches == {b \in DOMAIN remote : remote[b].port = port_raw.value}
           answer ==
               IF ~GuardAdmin(chat_id) THEN "admin only"
               ELSE IF back THEN "menu"
               ELSE IF ~port_raw.converts \/ ~max_raw.converts THEN "not a number"
               ELSE IF ~MaxCountAccepted(max_raw.value) THEN "max must be above zero"
               ELSE IF found = {} THEN "profile not found"
               ELSE IF \E k \in 1..Len(portsTbl[profile]) :
                          portsTbl[profile][k].port = port_raw.value
                    THEN "port already registered"
               ELSE IF profilesTbl[profile].panel_id \notin DOMAIN panelsTbl
                    THEN "panel not found"
               ELSE IF ~xui_ok THEN "XUIError"
               ELSE IF Cardinality(matches) # 1
                    THEN "port not on the panel or on several inbounds"
               ELSE "added"
       IN  /\ helperCall' =
                [helperCall EXCEPT
                   !.out.update = [router |-> "admin", handler |-> "add_profile_port",
                                   chat_id |-> chat_id, answer |-> answer,
                                   invoked |-> <<>>],
                   !.out.fsm[chat_id] = IF answer \in {"menu", "added"}
                                        THEN [state |-> "", selected_profile_id |-> 0]
                                        ELSE @]
           /\ portsTbl' =
                IF answer = "added"
                THEN [portsTbl EXCEPT ![profile] =
                        Append(@, PortRow(CHOOSE b \in matches : TRUE,
                                          port_raw.value, max_raw.value))]
                ELSE portsTbl
    /\ UNCHANGED <<profilesTbl, panelsTbl, countersTbl, issuedTbl, remote, dbWriter,
                   lockVars, pc, arg, loc, result, trace, entered, submitted, toggles>>

\* edit_port_capacity (lines 661-703) with
\* ProfileRepository.update_port_capacity (profiles.py lines 111-128)
EditPortCapacity(chat_id, back, profile_name, port_raw, max_raw) ==
    /\ helperCall.op = "bot"
    /\ helperCall.out.fsm[chat_id].state = "update_profile_port_capacity"
    /\ LET found   == {p \in DOMAIN profilesTbl : profilesTbl[p].name = profile_name}
           profile == CHOOSE p \in found : TRUE
           answer ==
               IF ~GuardAdmin(chat_id) THEN "admin only"
               ELSE IF back THEN "menu"
               ELSE IF ~port_raw.converts \/ ~max_raw.converts THEN "not a number"
               ELSE IF ~MaxCountAccepted(max_raw.value) THEN "max must be above zero"
               ELSE IF found = {} THEN "profile not found"
               ELSE IF \A k \in 1..Len(portsTbl[profile]) :
                          portsTbl[profile][k].port # port_raw.value
                    THEN "port not registered"
               ELSE "updated"
       IN  /\ helperCall' =
                [helperCall EXCEPT
                   !.out.update = [router |-> "admin", handler |-> "edit_port_capacity",
                                   chat_id |-> chat_id, answer |-> answer,
                                   invoked |-> <<>>],
                   !.out.fsm[chat_id] = IF answer \in {"menu", "updated"}
                                        THEN [state |-> "", selected_profile_id |-> 0]
                                        ELSE @]
           /\ portsTbl' =
                IF answer = "updated"
                THEN [portsTbl EXCEPT ![profile] =
                        [k \in 1..Len(@) |->
                            IF @[k].port = port_raw.value
                            THEN [@[k] EXCEPT !.max_active_clients = max_raw.value]
                            ELSE @[k]]]
                ELSE portsTbl
    /\ UNCHANGED <<profilesTbl, panelsTbl, countersTbl, issuedTbl, remote, dbWriter,
                   lockVars, pc, arg, loc, result, trace, entered, submitted, toggles>>

\* toggle_profile (lines 719-744): status is the text after "|"
AdminToggleProfile(chat_id, back, profile_name, status) ==
    /\ helperCall.op = "bot"
    /\ helperCall.out.fsm[chat_id].state = "toggle_profile"
    /\ LET found   == {p \in DOMAIN profilesTbl : profilesTbl[p].name = profile_name}
           profile == CHOOSE p \in found : TRUE
           answer ==
               IF ~GuardAdmin(chat_id) THEN "admin only"
               ELSE IF back THEN "menu"
               ELSE IF found = {} THEN "profile not found"
               ELSE IF status \notin {"on", "off"} THEN "on or off only"
               ELSE "changed"
       IN  /\ helperCall' =
                [helperCall EXCEPT
                   !.out.update = [router |-> "admin", handler |-> "toggle_profile",
                                   chat_id |-> chat_id, answer |-> answer,
                                   invoked |-> <<>>],
                   !.out.fsm[chat_id] = IF answer \in {"menu", "changed"}
                                        THEN [state |-> "", selected_profile_id |-> 0]
                                        ELSE @]
           /\ profilesTbl' =
                IF answer = "changed"
                THEN [profilesTbl EXCEPT ![profile].active = (status = "on")]
                ELSE profilesTbl
    /\ UNCHANGED <<panelsTbl, portsTbl, countersTbl, issuedTbl, remote, dbWriter,
                   lockVars, pc, arg, loc, result, trace, entered, submitted, toggles>>

\* confirm_delete_panel (lines 850-868), the callback of the confirmation
\* button: PanelRepository has no delete, so line 866 raises AttributeError
ConfirmDeletePanel(chat_id, panel_id_raw) ==
    /\ helperCall.op = "bot"
    /\ helperCall' =
         [helperCall EXCEPT
            !.out.update =
               [router |-> "admin", handler |-> "confirm_delete_panel", chat_id |-> chat_id,
                answer |-> IF ~GuardAdmin(chat_id) THEN "admin only"
                           ELSE IF ~panel_id_raw.converts THEN "not a number"
                           ELSE IF panel_id_raw.value \notin DOMAIN panelsTbl
                                THEN "panel not found"
                           ELSE "AttributeError",
                invoked |-> <<>>]]
    /\ UNCHANGED serviceVars

\* is_allowed (handlers_user.py lines 72-75)
IsAllowed(chat_id) ==
    chat_id = admin_chat_id \/ chat_id \in helperCall.out.allowed_users

\* validate_profile_access without the test of line 112
ValidateProfileAccess_any_profile(chat_id, profile_id) ==
    IF chat_id # admin_chat_id THEN "OperationalError" ELSE "ok"

\* validate_profile_access (lines 110-118): the error, or "ok" for the profile.
\* For a sender other than the admin line 115 reads user_profile_access, a
\* table that SCHEMA_SQL does not create.
ValidateProfileAccess(chat_id, profile_id) ==
    IF profile_id \notin DOMAIN profilesTbl \/ ~profilesTbl[profile_id].active
    THEN "inactive"
    ELSE IF chat_id # admin_chat_id THEN "OperationalError"
    ELSE "ok"

\* send_profiles_menu (lines 86-108) with get_visible_profiles (lines 77-84),
\* which reads user_profile_access for a sender other than the admin: the
\* answer and the sender's FSM entry afterwards
SendProfilesMenu(chat_id, entry) ==
    IF chat_id # admin_chat_id THEN [answer |-> "OperationalError", entry |-> entry]
    ELSE IF \A p \in DOMAIN profilesTbl : ~profilesTbl[p].active
         THEN [answer |-> "no profile", entry |-> [state |-> "", selected_profile_id |-> 0]]
         ELSE [answer |-> "profiles menu",
               entry  |-> [state |-> "choose_profile", selected_profile_id |-> 0]]

\* process_quantity (lines 120-162) up to its call of allocate_and_create
\* (line 135): the answer and the arguments of the call, <<>> for no call
ProcessQuantity(chat_id, profile_id, quantity) ==
    LET access == ValidateProfileAccess(chat_id, profile_id)
    IN  IF access # "ok" THEN [answer |-> access, invoked |-> <<>>]
        ELSE [answer  |-> "allocate_and_create",
              invoked |-> [profile_id |-> profile_id, quantity |-> quantity,
                           chat_id |-> chat_id]]

\* start (lines 164-175).  The admin's /start is taken by admin_start_redirect
\* (handlers_admin.py lines 94-100), whose router comes first.
Start(chat_id) ==
    /\ helperCall.op = "bot"
    /\ chat_id # admin_chat_id
    /\ LET menu == SendProfilesMenu(chat_id, helperCall.out.fsm[chat_id])
       IN  helperCall' =
             [helperCall EXCEPT
                !.out.update = [router |-> "user", handler |-> "start", chat_id |-> chat_id,
                                answer |-> IF IsAllowed(chat_id) THEN menu.answer
                                           ELSE "no access",
                                invoked |-> <<>>],
                !.out.fsm[chat_id] = IF IsAllowed(chat_id) THEN menu.entry
                                     ELSE [state |-> "", selected_profile_id |-> 0]]
    /\ UNCHANGED serviceVars

\* choose_profile_from_keyboard (lines 177-202): the dict of line 191 keeps,
\* for a lowercased name, the visible profile listed last
ChooseProfileFromKeyboard(chat_id, back, selected_name) ==
    /\ helperCall.op = "bot"
    /\ helperCall.out.fsm[chat_id].state = "choose_profile"
    /\ LET entry   == helperCall.out.fsm[chat_id]
           menu    == SendProfilesMenu(chat_id, entry)
           named   == {p \in DOMAIN profilesTbl :
                          /\ profilesTbl[p].active
                          /\ Lower(profilesTbl[p].name) = Lower(selected_name)}
           profile == CHOOSE p \in named : \A q \in named : q <= p
           handled ==
               IF ~IsAllowed(chat_id)
               THEN [answer |-> "no access", entry |-> [state |-> "", selected_profile_id |-> 0]]
               ELSE IF back THEN menu
               ELSE IF chat_id # admin_chat_id
                    THEN [answer |-> "OperationalError", entry |-> entry]
               ELSE IF named = {} THEN [answer |-> "press a button", entry |-> entry]
               ELSE [answer |-> "how many",
                     entry  |-> [state |-> "choose_quantity", selected_profile_id |-> profile]]
       IN  helperCall' =
             [helperCall EXCEPT
                !.out.update = [router |-> "user", handler |-> "choose_profile_from_keyboard",
                                chat_id |-> chat_id, answer |-> handled.answer,
                                invoked |-> <<>>],
                !.out.fsm[chat_id] = handled.entry]
    /\ UNCHANGED serviceVars

\* choose_quantity_from_keyboard (lines 204-231): quantity is the number the
\* text spells
ChooseQuantityFromKeyboard(chat_id, back, quantity) ==
    /\ helperCall.op = "bot"
    /\ helperCall.out.fsm[chat_id].state = "choose_quantity"
    /\ LET entry   == helperCall.out.fsm[chat_id]
           menu    == SendProfilesMenu(chat_id, entry)
           process == ProcessQuantity(chat_id, entry.selected_profile_id, quantity)
           handled ==
               IF ~IsAllowed(chat_id)
               THEN [answer |-> "no access", invoked |-> <<>>,
                     entry |-> [state |-> "", selected_profile_id |-> 0]]
               ELSE IF back THEN [answer |-> menu.answer, invoked |-> <<>>, entry |-> menu.entry]
               ELSE IF quantity \notin {10, 50, 100}
                    THEN [answer |-> "10, 50 or 100 only", invoked |-> <<>>, entry |-> entry]
               ELSE IF entry.selected_profile_id = 0
                    THEN [answer |-> menu.answer, invoked |-> <<>>, entry |-> menu.entry]
               ELSE [answer |-> process.answer, invoked |-> process.invoked, entry |-> entry]
       IN  helperCall' =
             [helperCall EXCEPT
                !.out.update = [router |-> "user", handler |-> "choose_quantity_from_keyboard",
                                chat_id |-> chat_id, answer |-> handled.answer,
                                invoked |-> handled.invoked],
                !.out.fsm[chat_id] = handled.entry]
    /\ UNCHANGED serviceVars

\* choose_profile (lines 233-258), the callback of a "profile:<id>" button
ChooseProfile(chat_id, profile_id_raw) ==
    /\ helperCall.op = "bot"
    /\ LET access == ValidateProfileAccess(chat_id, profile_id_raw.value)
           answer == IF ~IsAllowed(chat_id) THEN "no access"
                     ELSE IF ~profile_id_raw.converts THEN "not a number"
                     ELSE IF access # "ok" THEN access
                     ELSE "how many"
       IN  helperCall' =
             [helperCall EXCEPT
                !.out.update = [router |-> "user", handler |-> "choose_profile",
                                chat_id |-> chat_id, answer |-> answer, invoked |-> <<>>],
                !.out.fsm[chat_id] =
                    IF answer = "how many"
                    THEN [state |-> "choose_quantity",
                          selected_profile_id |-> profile_id_raw.value]
                    ELSE @]
    /\ UNCHANGED serviceVars

\* choose_quantity (lines 260-281), the callback of a "qty:<id>:<n>" button
ChooseQuantity(chat_id, profile_id_raw, qty_raw) ==
    /\ helperCall.op = "bot"
    /\ LET process == ProcessQuantity(chat_id, profile_id_raw.value, qty_raw.value)
           handled ==
               IF ~IsAllowed(chat_id) THEN [answer |-> "no access", invoked |-> <<>>]
               ELSE IF ~profile_id_raw.converts \/ ~qty_raw.converts
                    THEN [answer |-> "not a number", invoked |-> <<>>]
               ELSE process
       IN  helperCall' =
             [helperCall EXCEPT
                !.out.update = [router |-> "user", handler |-> "choose_quantity",
                                chat_id |-> chat_id, answer |-> handled.answer,
                                invoked |-> handled.invoked]]
    /\ UNCHANGED serviceVars

\* updates from the admin (chat 1) and from one other chat (chat 2).  Numbers
\* sent as text are 1, 2 or no number; profiles are named A or b; ports 13 and
\* 14 are each on one inbound of the panel, 11 is on two and 12 on none
SpecBot ==
    /\ InitBot
    /\ [][\E chat_id \in {1, 2} :
             \/ \E button \in {"menu", "add_user", "remove_user", "create_profile",
                               "add_profile_port", "update_profile_port_capacity",
                               "toggle_profile"} : AskAdmin(chat_id, button)
             \/ \E back \in BOOLEAN, chat_raw \in {RawInt(1), RawInt(2), RawNotInt} :
                   \/ AddUser(chat_id, back, chat_raw)
                   \/ RemoveUser(chat_id, back, chat_raw)
             \/ \E back \in BOOLEAN, xui_ok \in BOOLEAN, name \in {<<"A">>, <<"b">>},
                   panel_name \in {1, 2},
                   entries \in UNION {[1..n -> [port : {RawInt(11), RawInt(13), RawInt(14)},
                                                max  : {RawInt(0), RawInt(5)}]] :
                                         n \in 0..2} :
                   CreateProfile(chat_id, back, name, panel_name, <<"a">>, entries, xui_ok)
             \/ \E back \in BOOLEAN, xui_ok \in BOOLEAN, name \in {<<"A">>, <<"b">>},
                   port_raw \in {RawInt(11), RawInt(12), RawInt(13), RawNotInt},
                   max_raw \in {RawInt(0 - 1), RawInt(0), RawInt(7)} :
                   \/ AddProfilePort(chat_id, back, name, port_raw, max_raw, xui_ok)
                   \/ EditPortCapacity(chat_id, back, name, port_raw, max_raw)
             \/ \E back \in BOOLEAN, name \in {<<"A">>, <<"b">>},
                   status \in {"on", "off", "x"} :
                   AdminToggleProfile(chat_id, back, name, status)
             \/ \E panel_id_raw \in {RawInt(1), RawInt(2), RawNotInt} :
                   ConfirmDeletePanel(chat_id, panel_id_raw)
             \/ Start(chat_id)
             \/ \E back \in BOOLEAN, selected_name \in {<<"a">>, <<"B">>, <<"z">>} :
                   ChooseProfileFromKeyboard(chat_id, back, selected_name)
             \/ \E back \in BOOLEAN, quantity \in {7, 10} :
                   ChooseQuantityFromKeyboard(chat_id, back, quantity)
             \/ \E profile_id_raw \in {RawInt(1), RawInt(2), RawNotInt} :
                   \/ ChooseProfile(chat_id, profile_id_raw)
                   \/ \E qty_raw \in {RawInt(10), RawInt(7), RawNotInt} :
                         ChooseQuantity(chat_id, profile_id_raw, qty_raw)]_vars

\* C32: every profile_ports row has max_active_clients > 0 and no two rows of
\* a profile have the same port.  Every row of the table was written by
\* create_profile, add_profile_port or edit_port_capacity.
C32_RowsHavePositiveCapacityAndDistinctPorts ==
    helperCall.op = "bot" =>
        \A p \in DOMAIN portsTbl :
            \A k \in 1..Len(portsTbl[p]) :
                /\ portsTbl[p][k].max_active_clients > 0
                /\ \A j \in 1..Len(portsTbl[p]) :
                      j # k => portsTbl[p][j].port # portsTbl[p][k].port

\* a profile with the row of port 14 as create_profile wrote it and a row of
\* port 13 whose capacity edit_port_capacity has just set
C32_Witness ==
    /\ helperCall.op = "bot"
    /\ helperCall.out.update.handler = "edit_port_capacity"
    /\ helperCall.out.update.answer = "updated"
    /\ Len(portsTbl) = 1
    /\ Len(portsTbl[1]) = 2
    /\ portsTbl[1][1] = PortRow(4, 14, 5)
    /\ portsTbl[1][2] = PortRow(3, 13, 7)

\* the stored state an admin handler could write: the tables, the allowlist
\* and the FSM storage
C39_Stored == <<dbVars, helperCall.out.allowed_users, helperCall.out.fsm>>

\* C39: a step in which a handler of the admin router handles an update whose
\* sender is not the admin leaves the tables, the allowlist and the FSM
\* storage as they were.
C39_NonAdminUpdatesChangeNothing ==
    [][(/\ helperCall.op = "bot"
        /\ helperCall'.out.update.router = "admin"
        /\ helperCall'.out.update.chat_id # admin_chat_id)
          => C39_Stored' = C39_Stored]_vars

\* chat 2 pressed the confirmation button of a panel deletion while a profile
\* and a customer were stored, and was turned away by the guard
C39_Witness ==
    /\ helperCall.op = "bot"
    /\ helperCall.out.update.handler = "confirm_delete_panel"
    /\ helperCall.out.update.chat_id = 2
    /\ helperCall.out.update.answer = "admin only"
    /\ helperCall.out.allowed_users # {}
    /\ Len(profilesTbl) = 1

====
